---- MODULE Spec2Model ----
(***************************************************************************)
(* Etsy -> Facebook catalog sync: the resilient API client.                *)
(*                                                                         *)
(* The model follows lib/etsy/client.ts (getValidToken, the rate limiter,  *)
(* EtsyClient.makeRequest) and lib/storage/edge-config.ts (token storage   *)
(* and refresh).  Invocations are serverless requests: each runs           *)
(* makeRequest from its first line to its return or throw, and the only    *)
(* state they share is the durable store (the token record and the         *)
(* limiter state) and the wall clock.  One step of an invocation is the    *)
(* code between two awaits that touch the outside world (a store read or   *)
(* write, an HTTP exchange, a sleep); the synchronous code of one step     *)
(* reads one clock value.                                                  *)
(*                                                                         *)
(* Time is in milliseconds since the epoch, as Date.now() gives it.  ISO   *)
(* 8601 strings (expires_at, daily_reset) carry millisecond precision, so  *)
(* a stored instant is kept as its millisecond value.                      *)
(* The deployment is configured (ETSY_API_KEY, EDGE_CONFIG_ID and          *)
(* EDGE_CONFIG_TOKEN are set): the EtsyClient constructor requires it.     *)
(***************************************************************************)
EXTENDS Integers, Sequences, FiniteSets

(* ------------------------------------------------------------------ *)
(* Program constants                                                   *)
(* ------------------------------------------------------------------ *)
QPS == 5
QPD == 5000
SECOND_WINDOW_MS == 1000
BUFFER_MS == 10
MAX_RETRIES == 3
BASE_DELAY_MS == 1000
MAX_DELAY_MS == 30000
\* JITTER_FACTOR = 0.3, in thousandths
JITTER_FACTOR_PERMILLE == 300
TOKEN_EXPIRY_BUFFER_MS == 5 * 60 * 1000
\* page size of the listings endpoint
DEFAULT_LIMIT == 100
\* listing ids per request of the batch endpoint (the 100 of client.ts 787-788)
BATCH_SIZE == 100
\* images kept per listing (the 9 of client.ts 818)
IMAGE_LIMIT == 9
\* the age above which a handshake entry is refused (callback route 204)
OAUTH_STATE_MAX_AGE_MS == 10 * 60 * 1000
\* the wait between the write of a handshake entry and the redirect
\* (authorize route 65)
PROPAGATION_DELAY_MS == 1000
\* one day, 24 * 60 * 60 * 1000 ms: the step of Date.UTC(y, m, d + 1)
DAY_MS == 24 * 60 * 60 * 1000

(* ------------------------------------------------------------------ *)
(* Bounds of the model                                                 *)
(* ------------------------------------------------------------------ *)
\* makeRequest calls started in one behaviour, over all instances
MaxCalls == 2

\* the serverless instances: one serving a stream of requests one at a
\* time, or two serving requests at the same time
OneInstance == {1}
TwoInstances == {1, 2}

\* the UTC midnight the behaviours run across, and the instant they start
Midnight == 2 * DAY_MS
StartTime == Midnight - 2

\* instants the clock may step to, besides the wake-up times of sleepers
Grid == {Midnight}

\* expires_in (seconds) an upstream token response may carry
ExpiresInSet == {60, 300, 3600}

\* draws of Math.random(), in thousandths (Math.random() < 1)
RandomDraws == {999}

(* ------------------------------------------------------------------ *)
(* State                                                               *)
(* ------------------------------------------------------------------ *)
VARIABLES
    now,          \* the wall clock, Date.now()
    tokenStore,   \* Edge Config key etsy_tokens: NoTokens or an EtsyTokens record
    rlStore,      \* Edge Config limiter-state key: NoState or a RateLimitState
    inv,          \* per instance: position in makeRequest and its locals
    calls,        \* makeRequest calls started so far
    nextResp,     \* identity of the next upstream token response
    issued,       \* history: the triple each upstream token response gave rise to
    admitted,     \* history: every admission timestamp persisted, in order
    overlapped,   \* history: some call started while another was running
    calc,         \* a computation of calculateBackoffDelay: its inputs and results
    sent,         \* history: the HTTP requests sent to the marketplace API
    api,          \* a call of a public method of EtsyClient: position and locals
    oauth,        \* the OAuth handshake: stored entries, authorize and callback runs
    sync          \* a run of a sync route (cron or manual): position and effects

\* the variables of makeRequest and of the stores it works on
requests == <<now, tokenStore, rlStore, inv, calls, nextResp, issued, admitted, overlapped>>

\* what the steps of makeRequest leave alone
callers == <<calc, sent, api, oauth, sync>>

vars == <<now, tokenStore, rlStore, inv, calls, nextResp, issued, admitted, overlapped,
          calc, sent, api, oauth, sync>>

NoTokens == [none |-> TRUE]
NoState == [none |-> TRUE]
NoCalc == [pc |-> "none", attempt |-> 0, rnd |-> 0, rndNext |-> 0,
           delay |-> 0, delayNext |-> 0]
\* before: requests sent since the last daily reset when the behaviour
\* starts; at: the instants of the requests sent since
NoSent == [before |-> 0, at |-> <<>>]
NoResult == [phase |-> "none", class |-> "none", code |-> "none", status |-> 0]

\* an EtsyShop, an API error as a caller sees it, a request as it is sent
NoShop == [shop_id |-> 0, shop_name |-> <<>>]
NoError == [class |-> "none", code |-> "none", status |-> 0, found |-> <<>>]
NoRequest == [endpoint |-> "none", shopId |-> <<>>, offset |-> 0, ids |-> <<>>, name |-> <<>>]
NoValue == [kind |-> "none", listings |-> <<>>, shop |-> NoShop, images |-> {}]
NoServer == [mode |-> "none", n |-> 0, shops |-> <<>>]

\* no public method has been called yet.  reqs, pages, execCalls, tokenReads
\* and lastResult are history: the requests handed to makeRequest, the size
\* and count of each page received, the makeRequest calls started, the reads
\* of the token record, the outcome of the last makeRequest call
NoApi ==
    [pc |-> "idle", op |-> "none", server |-> NoServer,
     arg |-> <<>>, shopId |-> <<>>, listingIds |-> <<>>,
     offset |-> 0, allListings |-> <<>>, i |-> 0, imagesByListingId |-> {},
     reqs |-> <<>>, pages |-> <<>>, execCalls |-> 0, tokenReads |-> 0,
     lastResult |-> NoResult, value |-> NoValue, error |-> NoError]

\* bounds on the runs of the authorize handler and of the callback handler
MaxAuthorize == 1
MaxCallbacks == 2

\* the state tokens generateState may come up with, and the callback
\* handler, whose runs follow one another
StateTokens == {"s1", "s2"}
Callbacks == {1}

\* a thrown value: an AppError of some class, a plain Error (code "none"),
\* or a value that is no Error (class "none")
Thrown(class, code, statusCode, message) ==
    [class |-> class, code |-> code, statusCode |-> statusCode, message |-> message]
NoThrown == Thrown("none", "none", 0, "none")

\* no handshake entry under a key; a redirect or response not yet produced
NoEntry == [none |-> TRUE]
NoOutcome == [kind |-> "none", status |-> 0, auth |-> "none", error |-> "none",
              message |-> "none", state |-> "none"]
NoTokenResponse == [access_token |-> <<>>, refresh_token |-> <<>>, expires_in |-> 0]

\* the authorize handler before it is called.  stored is history: the
\* instant at which storeOAuthState returned, 0 when it has not
NoAuthorize ==
    [pc |-> "idle", state |-> "none", created_at |-> 0, stored |-> 0, wake |-> 0,
     outcome |-> NoOutcome]

\* the callback handler before it is called.  found, stateAge, exchange,
\* lookups, deletes, failedDeletes, exchanges, wrote, replay and thrown are
\* history: what getOAuthState gave, the age computed at 263, the answer
\* of the token endpoint, the calls of getOAuthState and deleteOAuthState,
\* the deletes that did not remove the entry, the requests to the token
\* endpoint, whether storeEtsyTokens wrote, whether a callback with the
\* same state had ended in success before this one began, the error caught
NoCallback ==
    [pc |-> "idle", code |-> FALSE, state |-> "none", error |-> FALSE,
     storedState |-> NoEntry, tokens |-> NoTokens,
     found |-> "none", stateAge |-> 0, exchange |-> "none",
     lookups |-> 0, deletes |-> 0, failedDeletes |-> 0, exchanges |-> 0,
     wrote |-> FALSE, replay |-> FALSE, thrown |-> NoThrown, outcome |-> NoOutcome]

\* env: whether ETSY_API_KEY and ETSY_REDIRECT_URI are set ("ok") or not
\* ("missing"); entries: Edge Config keys oauth_state_<state>; cleanups: deletes issued
\* by a catch block and not yet settled; started, authorized, generated,
\* consumed and exchanged are history: callbacks and authorize runs begun,
\* state tokens generated, states whose callback ended in success, token
\* exchanges made with the entry of each state
NoOAuth ==
    [env |-> "ok",
     entries |-> [s \in StateTokens |-> NoEntry],
     auth |-> NoAuthorize,
     cb |-> [c \in Callbacks |-> NoCallback],
     cleanups |-> [s \in StateTokens |-> 0],
     started |-> 0, authorized |-> 0, generated |-> {}, consumed |-> {},
     exchanged |-> [s \in StateTokens |-> 0]]

\* a header or an environment variable that is not there
Absent == [present |-> FALSE, value |-> <<>>]
\* the sync-metadata record before any is stored, a JSON response not yet
\* given
NoMetadata == [status |-> "none", listingsCount |-> 0, feedUrl |-> "none"]
NoResponse == [status |-> 0, success |-> FALSE, message |-> "none", code |-> "none",
               trigger |-> "none"]
\* the feed blob before any CSV is uploaded.  by names the run that
\* uploaded the CSV the blob holds ("earlier": a run before the one
\* modelled; "run": the run modelled), listingsCount the listings in it
NoBlob == [by |-> "none", listingsCount |-> 0]

\* a sync route before it is called.  metadata is the record under the
\* sync-metadata key of Edge Config and recordedBy the run that wrote it
\* (as by of the blob); blob is the feed blob.  tokenReads, refreshes, shopCalls,
\* listingCalls, transforms, uploads, metadataWrites and failureWrites are
\* history: the steps of the pipeline begun and the attempts to store a
\* success record and a failure record
NoSync ==
    [pc |-> "idle", trigger |-> "none", authorization |-> Absent, secret |-> Absent,
     shopIdStored |-> FALSE, shopName |-> FALSE, listingsCount |-> 0,
     error |-> NoThrown,
     swallowed |-> FALSE, response |-> NoResponse, metadata |-> NoMetadata,
     recordedBy |-> "none", blob |-> NoBlob,
     tokenReads |-> 0, refreshes |-> 0, shopCalls |-> 0, listingCalls |-> 0,
     transforms |-> 0, uploads |-> 0, metadataWrites |-> 0, failureWrites |-> 0]

Tokens(a, r, e) ==
    [access_token |-> a, refresh_token |-> r, expires_at |-> e, user_id |-> "u1",
     shop_id |-> "s1"]

Triple(t) == <<t.access_token, t.refresh_token, t.expires_at>>

RLState(c, r, ts) == [daily_count |-> c, daily_reset |-> r, second_timestamps |-> ts]

(* ------------------------------------------------------------------ *)
(* Pure helpers of the client                                          *)
(* ------------------------------------------------------------------ *)
SeqMin(s) == CHOOSE x \in {s[k] : k \in DOMAIN s} : \A y \in {s[k] : k \in DOMAIN s} : x <= y

MinOf(a, b) == IF a <= b THEN a ELSE b

RECURSIVE Pow2(_)
Pow2(n) == IF n = 0 THEN 1 ELSE 2 * Pow2(n - 1)

\* isTokenExpired with the safety margin applied twice
isTokenExpired_DoubleBuffer(tokens, t) ==
    t >= tokens.expires_at - 2 * TOKEN_EXPIRY_BUFFER_MS

\* edge-config.ts isTokenExpired: now >= expiresAt - TOKEN_EXPIRY_BUFFER_MS
isTokenExpired(tokens, t) == t >= tokens.expires_at - TOKEN_EXPIRY_BUFFER_MS

\* Date.UTC(y, m, d + 1, 0, 0, 0) of the UTC date of t
nextMidnightUTC(t) == ((t \div DAY_MS) + 1) * DAY_MS

\* cleanupTimestamps that drops nothing
cleanupTimestamps_KeepAll(timestamps, t) == timestamps

\* client.ts cleanupTimestamps: keep ts with now - ts < SECOND_WINDOW_MS
cleanupTimestamps(timestamps, t) ==
    SelectSeq(timestamps, LAMBDA ts : t - ts < SECOND_WINDOW_MS)

\* isRetryableError that also names every client error (4xx) retryable
isRetryableError_ClientErrorsToo(status) == status >= 400 /\ status < 600

\* client.ts isRetryableError
isRetryableError(status) == status = 429 \/ (status >= 500 /\ status < 600)

\* calculateBackoffDelay whose jitter is up to 130% of the exponential delay
\* and is added after the cap
calculateBackoffDelay_WideJitter(attempt, rnd) ==
    MinOf(BASE_DELAY_MS * Pow2(attempt), MAX_DELAY_MS)
        + (rnd * 1300 * Pow2(attempt)) \div 1000

\* client.ts calculateBackoffDelay; rnd is Math.random() in thousandths.
\* The jitter is rnd/1000 * JITTER_FACTOR_PERMILLE/1000 * exponentialDelay,
\* rounded down to a whole millisecond as setTimeout does; the division by
\* 1000 comes first where it is exact, to keep the product in 32 bits.
calculateBackoffDelay(attempt, rnd) ==
    LET exponentialDelay == BASE_DELAY_MS * Pow2(attempt)
        jitter == IF exponentialDelay % 1000 = 0
                    THEN (rnd * JITTER_FACTOR_PERMILLE * (exponentialDelay \div 1000)) \div 1000
                    ELSE (rnd * JITTER_FACTOR_PERMILLE * exponentialDelay) \div 1000000
    IN  MinOf(exponentialDelay + jitter, MAX_DELAY_MS)

(* ------------------------------------------------------------------ *)
(* Initial state                                                       *)
(* ------------------------------------------------------------------ *)
\* token records a deployment can hold when a request arrives (response 0
\* is the code exchange that created the record)
InitTokens ==
    {NoTokens} \cup
    {Tokens(0, 0, e) : e \in {StartTime - 600000,
                              StartTime + TOKEN_EXPIRY_BUFFER_MS,
                              StartTime + TOKEN_EXPIRY_BUFFER_MS + 1}}

\* limiter states a deployment can hold when a request arrives
InitLimiter ==
    {NoState,
     RLState(4, Midnight, <<Midnight - 900, Midnight - 900, Midnight - 500, Midnight - 3>>),
     RLState(QPD - 1, Midnight, <<>>),
     RLState(QPD, Midnight, <<>>),
     RLState(7, Midnight - DAY_MS, <<>>)}

FreshLocals ==
    [pc |-> "idle",
     cur |-> NoTokens, upd |-> NoTokens, ret |-> NoTokens,
     tokRead |-> "none", tokNow |-> 0, refreshCalls |-> 0, refreshStatus |-> 0,
     data |-> 0, tokWrites |-> 0,
     st |-> NoState, rlRead |-> NoState, rlNow |-> 0, rlDone |-> FALSE,
     didReset |-> FALSE, rlWrites |-> 0, cts |-> 0, pend |-> <<>>,
     wake |-> 0, attempt |-> 0, httpCount |-> 0, sleeps |-> 0, qpsSleeps |-> 0,
     allRetryable |-> TRUE, last |-> "none", lastStatus |-> 0, result |-> NoResult]

\* the limiter states the two-instance behaviours start from
InitLimiterConc ==
    {RLState(4, Midnight, <<Midnight - 900, Midnight - 900, Midnight - 500, Midnight - 3>>)}

\* the token records the two-instance behaviours start from: one to refresh, one fresh
InitTokensConc ==
    {Tokens(0, 0, e) : e \in {StartTime - 600000, StartTime + TOKEN_EXPIRY_BUFFER_MS + 1}}

InitCalls(instances, tokenStates, limiterStates) ==
    /\ now = StartTime
    /\ tokenStore \in tokenStates
    /\ rlStore \in limiterStates
    /\ inv = [i \in instances |-> FreshLocals]
    /\ calls = 0
    /\ nextResp = 1
    /\ issued = IF tokenStore = NoTokens THEN {} ELSE {Triple(tokenStore)}
    /\ admitted = IF rlStore = NoState THEN <<>> ELSE rlStore.second_timestamps
    /\ overlapped = FALSE

InitWith(instances, tokenStates, limiterStates) ==
    /\ InitCalls(instances, tokenStates, limiterStates)
    /\ calc = NoCalc
    /\ sent = NoSent
    /\ api = NoApi
    /\ oauth = NoOAuth
    /\ sync = NoSync

Init == InitWith(OneInstance, InitTokens, InitLimiter)

InitConc == InitWith(TwoInstances, InitTokensConc, InitLimiterConc)

\* one instance, starting with a token record to refresh and a limiter
\* window that is nearly full
InitFair ==
    InitWith(OneInstance, {Tokens(0, 0, StartTime - 600000)}, InitLimiterConc)

Inv == DOMAIN inv

(* ------------------------------------------------------------------ *)
(* Outcomes of the outside world                                       *)
(* ------------------------------------------------------------------ *)
\* what the OAuth token endpoint answers to a refresh: a token response
\* carrying expires_in, an HTTP error status, a body that cannot be used
\* (response.json() rejects), or no response at all (fetch rejects)
RefreshOutcomes ==
    {[kind |-> "ok", status |-> 200, expires_in |-> e] : e \in ExpiresInSet} \cup
    {[kind |-> "status", status |-> s, expires_in |-> 0] : s \in {400, 401, 500}} \cup
    {[kind |-> k, status |-> 0, expires_in |-> 0] : k \in {"badbody", "neterr"}}

\* what the marketplace API answers to one HTTP attempt
HttpOutcomes ==
    {[kind |-> "resp", status |-> s, body |-> "json"] : s \in {200, 401, 403, 404, 429, 500}} \cup
    {[kind |-> "resp", status |-> 200, body |-> "garbage"],
     [kind |-> "neterr", status |-> 0, body |-> "none"]}

\* the answers of an API without transient failures
PlainOutcomes ==
    {[kind |-> "resp", status |-> s, body |-> "json"] : s \in {200, 404}}

(* ------------------------------------------------------------------ *)
(* Steps of one invocation                                             *)
(* ------------------------------------------------------------------ *)
Set(i, r) == inv' = [inv EXCEPT ![i] = r]

Throw(l, phase, class, code, status) ==
    [l EXCEPT !.pc = "done",
              !.result = [phase |-> phase, class |-> class, code |-> code, status |-> status]]

\* makeRequest is entered (client.ts 544)
Call(i) ==
    /\ inv[i].pc = "idle"
    /\ calls < MaxCalls
    /\ calls' = calls + 1
    /\ overlapped' = (overlapped \/ \E j \in Inv \ {i} : inv[j].pc \notin {"idle", "done"})
    /\ Set(i, [inv[i] EXCEPT !.pc = "getEtsyTokens"])
    /\ UNCHANGED <<now, tokenStore, rlStore, nextResp, issued, admitted>>

\* getValidTokenRead without the check for a missing record
getValidTokenRead_NoNullCheck(l, readOk) ==
    IF ~readOk
      THEN [Throw(l, "token", "StorageError", "EDGE_CONFIG_READ_ERROR", 500)
              EXCEPT !.tokRead = "failed"]
    ELSE IF tokenStore = NoTokens
      THEN [l EXCEPT !.pc = "getRateLimitState", !.tokRead = "null"]
    ELSE IF ~isTokenExpired(tokenStore, now)
      THEN [l EXCEPT !.pc = "getRateLimitState", !.tokRead = "record",
                     !.cur = tokenStore, !.ret = tokenStore, !.tokNow = now]
    ELSE [l EXCEPT !.pc = "refreshFetch", !.tokRead = "record",
                   !.cur = tokenStore, !.tokNow = now]

\* getValidToken up to its first decision (client.ts 288-309):
\* read the record, NOT_AUTHORIZED when absent, return it when still valid
getValidTokenRead(l, readOk) ==
    IF ~readOk
      THEN [Throw(l, "token", "StorageError", "EDGE_CONFIG_READ_ERROR", 500)
              EXCEPT !.tokRead = "failed"]
    ELSE IF tokenStore = NoTokens
      THEN [Throw(l, "token", "TokenError", "NOT_AUTHORIZED", 401)
              EXCEPT !.tokRead = "null"]
    ELSE IF ~isTokenExpired(tokenStore, now)
      THEN [l EXCEPT !.pc = "getRateLimitState", !.tokRead = "record",
                     !.cur = tokenStore, !.ret = tokenStore, !.tokNow = now]
    ELSE [l EXCEPT !.pc = "refreshFetch", !.tokRead = "record",
                   !.cur = tokenStore, !.tokNow = now]

GetEtsyTokens(i) ==
    /\ inv[i].pc = "getEtsyTokens"
    /\ \E readOk \in BOOLEAN : Set(i, getValidTokenRead(inv[i], readOk))
    /\ UNCHANGED <<now, tokenStore, rlStore, calls, nextResp, issued, admitted, overlapped>>

\* updatedTokens built from the token response alone
updatedTokens_ResponseOnly(currentTokens, id, expires_in, t) ==
    [currentTokens EXCEPT !.access_token = id,
                          !.refresh_token = id,
                          !.expires_at = t + expires_in * 1000,
                          !.shop_id = "none"]

\* updatedTokens that keeps the expires_at of the record it refreshes
updatedTokens_KeepExpiry(currentTokens, id, expires_in, t) ==
    [currentTokens EXCEPT !.access_token = id, !.refresh_token = id]

\* updatedTokens that keeps the refresh_token of the record it refreshes
updatedTokens_KeepRefresh(currentTokens, id, expires_in, t) ==
    [currentTokens EXCEPT !.access_token = id, !.expires_at = t + expires_in * 1000]

\* refreshAccessToken 345-354: the record built from a token response
updatedTokens(currentTokens, id, expires_in, t) ==
    [currentTokens EXCEPT !.access_token = id,
                          !.refresh_token = id,
                          !.expires_at = t + expires_in * 1000]

\* refreshResponse whose caller does not tell a rejected refresh token
\* from any other refresh failure
refreshResponse_NoExpiredCode(l, o, id) ==
    IF o.kind = "ok"
      THEN [l EXCEPT !.pc = "storeEtsyTokens",
                     !.data = o.expires_in,
                     !.upd = updatedTokens(l.cur, id, o.expires_in, now)]
    ELSE Throw(l, "token", "TokenError", "TOKEN_REFRESH_FAILED", 401)

\* refreshAccessToken 310-354 with getValidToken's catch (client.ts 314-332)
refreshResponse(l, o, id) ==
    IF o.kind = "ok"
      THEN [l EXCEPT !.pc = "storeEtsyTokens",
                     !.data = o.expires_in,
                     !.upd = updatedTokens(l.cur, id, o.expires_in, now)]
    ELSE IF o.kind = "status" /\ (o.status = 400 \/ o.status = 401)
      THEN Throw(l, "token", "TokenError", "REFRESH_TOKEN_EXPIRED", 401)
    ELSE Throw(l, "token", "TokenError", "TOKEN_REFRESH_FAILED", 401)

RefreshFetch(i) ==
    /\ inv[i].pc = "refreshFetch"
    /\ \E o \in RefreshOutcomes :
         /\ Set(i, refreshResponse([inv[i] EXCEPT !.refreshCalls = @ + 1,
                                                  !.refreshStatus = o.status],
                                    o, nextResp))
         /\ IF o.kind = "ok"
              THEN /\ nextResp' = nextResp + 1
                   /\ issued' = issued \cup {<<nextResp, nextResp, now + o.expires_in * 1000>>}
              ELSE UNCHANGED <<nextResp, issued>>
    /\ UNCHANGED <<now, tokenStore, rlStore, calls, admitted, overlapped>>

\* storeEtsyTokens (edge-config.ts 211-225) as called at refreshAccessToken 357:
\* one upsert of the whole record, or EDGE_CONFIG_WRITE_ERROR
StoreEtsyTokens(i) ==
    /\ inv[i].pc = "storeEtsyTokens"
    /\ \/ /\ tokenStore' = inv[i].upd
          /\ Set(i, [inv[i] EXCEPT !.pc = "getRateLimitState",
                                   !.tokWrites = @ + 1, !.ret = inv[i].upd])
       \/ /\ UNCHANGED tokenStore
          /\ Set(i, Throw(inv[i], "token", "TokenError", "TOKEN_REFRESH_FAILED", 401))
    /\ UNCHANGED <<now, rlStore, calls, nextResp, issued, admitted, overlapped>>

(* ------------------------------------------------------------------ *)
(* The rate limiter (client.ts 339-429)                                *)
(* ------------------------------------------------------------------ *)
\* getRateLimitState / storeRateLimitState of lib/storage/edge-config:
\* get and upsert of the limiter-state key of the durable store
getRateLimitState == rlStore

storeRateLimitState(state) == rlStore' = state

\* freshRateLimitState whose reset instant is the midnight that has passed
freshRateLimitState_Today(t) == RLState(0, (t \div DAY_MS) * DAY_MS, <<>>)

\* getOrCreateRateLimitState 348-369: the state a missing or stale record
\* is replaced by
freshRateLimitState(t) == RLState(0, nextMidnightUTC(t), <<>>)

\* getOrCreateRateLimitState 349, 361: whether the record read is replaced
needsReset(state, t) == state = NoState \/ t >= state.daily_reset

\* waitForRateLimit 415-417: the timestamp recorded and the list persisted
recordTimestamp(l, t) ==
    [l EXCEPT !.pc = "storeRateLimitState",
              !.cts = t,
              !.pend = cleanupTimestamps(Append(l.st.second_timestamps, t), t)]

\* waitForRateLimitCheck that lets the request numbered QPD + 1 through
waitForRateLimitCheck_StrictQuota(l, t) ==
    IF l.st.daily_count > QPD
      THEN [Throw(l, "admit", "RateLimitError", "RATE_LIMIT_ERROR", 429) EXCEPT !.rlDone = TRUE]
    ELSE LET currentTimestamps == cleanupTimestamps(l.st.second_timestamps, t)
         IN  IF Len(currentTimestamps) >= QPS
                  /\ SECOND_WINDOW_MS - (t - SeqMin(currentTimestamps)) > 0
               THEN [l EXCEPT !.pc = "qpsDelay",
                              !.qpsSleeps = @ + 1,
                              !.wake = t + (SECOND_WINDOW_MS - (t - SeqMin(currentTimestamps)))
                                         + BUFFER_MS]
               ELSE recordTimestamp(l, t)

\* waitForRateLimitCheck without the check of the daily quota
waitForRateLimitCheck_NoQuota(l, t) ==
    LET currentTimestamps == cleanupTimestamps(l.st.second_timestamps, t)
    IN  IF Len(currentTimestamps) >= QPS
             /\ SECOND_WINDOW_MS - (t - SeqMin(currentTimestamps)) > 0
          THEN [l EXCEPT !.pc = "qpsDelay",
                         !.qpsSleeps = @ + 1,
                         !.wake = t + (SECOND_WINDOW_MS - (t - SeqMin(currentTimestamps)))
                                    + BUFFER_MS]
          ELSE recordTimestamp(l, t)

\* waitForRateLimit 392-417, entered with the state l.st at clock value t:
\* the quota check, the pruning and the decision to sleep
waitForRateLimitCheck(l, t) ==
    IF l.st.daily_count >= QPD
      THEN [Throw(l, "admit", "RateLimitError", "RATE_LIMIT_ERROR", 429) EXCEPT !.rlDone = TRUE]
    ELSE LET currentTimestamps == cleanupTimestamps(l.st.second_timestamps, t)
         IN  IF Len(currentTimestamps) >= QPS
                  /\ SECOND_WINDOW_MS - (t - SeqMin(currentTimestamps)) > 0
               THEN [l EXCEPT !.pc = "qpsDelay",
                              !.qpsSleeps = @ + 1,
                              !.wake = t + (SECOND_WINDOW_MS - (t - SeqMin(currentTimestamps)))
                                         + BUFFER_MS]
               ELSE recordTimestamp(l, t)

\* getOrCreateRateLimitState 340-347 and, when nothing is rewritten, on to
\* the checks of waitForRateLimit
GetRateLimitState(i) ==
    /\ inv[i].pc = "getRateLimitState"
    /\ LET state == getRateLimitState
           l == [inv[i] EXCEPT !.rlRead = state, !.rlNow = now,
                         !.cur = NoTokens, !.upd = NoTokens, !.tokNow = 0,
                         !.data = 0, !.refreshStatus = 0]
       IN  IF needsReset(state, now)
             THEN Set(i, [l EXCEPT !.pc = "storeFreshState", !.didReset = TRUE,
                                   !.st = freshRateLimitState(now)])
             ELSE Set(i, waitForRateLimitCheck([l EXCEPT !.st = state], now))
    /\ UNCHANGED <<now, tokenStore, rlStore, calls, nextResp, issued, admitted, overlapped>>

\* getOrCreateRateLimitState 355 / 367: the fresh state is persisted, then
\* waitForRateLimit goes on with it
StoreFreshState(i) ==
    /\ inv[i].pc = "storeFreshState"
    /\ storeRateLimitState(inv[i].st)
    /\ Set(i, waitForRateLimitCheck([inv[i] EXCEPT !.rlWrites = @ + 1], now))
    /\ UNCHANGED <<now, tokenStore, calls, nextResp, issued, admitted, overlapped>>

\* waitForRateLimit 411: delay(waitTime + BUFFER_MS) is over
QpsDelay(i) ==
    /\ inv[i].pc = "qpsDelay"
    /\ now >= inv[i].wake
    /\ Set(i, recordTimestamp(inv[i], now))
    /\ UNCHANGED <<now, tokenStore, rlStore, calls, nextResp, issued, admitted, overlapped>>

\* admittedState that increments the count the store holds at the write
admittedState_Atomic(l) ==
    [l.st EXCEPT !.daily_count = IF rlStore = NoState THEN 1 ELSE rlStore.daily_count + 1,
                 !.second_timestamps = l.pend]

\* waitForRateLimit 419-423: the state persisted is the state read at the
\* start, with the count incremented and the new timestamp list
admittedState(l) ==
    [l.st EXCEPT !.daily_count = @ + 1, !.second_timestamps = l.pend]

\* waitForRateLimit 419-423: the state of the admission is persisted
StoreRateLimitState(i) ==
    /\ inv[i].pc = "storeRateLimitState"
    /\ storeRateLimitState(admittedState(inv[i]))
    /\ admitted' = Append(admitted, inv[i].cts)
    /\ Set(i, [inv[i] EXCEPT !.pc = "fetch", !.rlWrites = @ + 1, !.rlDone = TRUE])
    /\ UNCHANGED <<now, tokenStore, calls, nextResp, issued, overlapped>>

(* ------------------------------------------------------------------ *)
(* The retry loop of makeRequest (client.ts 553-674)                   *)
(* ------------------------------------------------------------------ *)
\* an outcome the retry policy names retryable: 429, 5xx, network failure
RetryableOutcome(o) == o.kind = "neterr" \/ (o.kind = "resp" /\ isRetryableError(o.status))

Backoff(l, rnd) ==
    [l EXCEPT !.pc = "backoffDelay", !.sleeps = @ + 1,
              !.wake = now + calculateBackoffDelay(l.attempt, rnd)]

\* 659-673: the loop ends after the last attempt
Exhausted(l) == Throw(l, "http", "EtsyApiError", "MAX_RETRIES_EXCEEDED", 503)

\* catchRetry without the attempt budget
catchRetry_NoBudget(l, rnd) == Backoff(l, rnd)

\* 634-664: the catch block, for an error that is none of TokenError,
\* RateLimitError, non-retryable EtsyApiError
catchRetry(l, rnd) ==
    IF l.attempt < MAX_RETRIES THEN Backoff(l, rnd) ELSE Exhausted(l)

\* errorResponse whose catch block rethrows every EtsyApiError
errorResponse_RethrowAll(l, status, rnd) ==
    IF isRetryableError(status) /\ l.attempt < MAX_RETRIES
      THEN Backoff(l, rnd)
    ELSE IF status = 429
      THEN Throw(l, "http", "RateLimitError", "RATE_LIMIT_ERROR", 429)
    ELSE IF status = 401 \/ status = 403
      THEN Throw(l, "http", "TokenError", "API_AUTH_FAILED", 401)
    ELSE Throw(l, "http", "EtsyApiError", "API_REQUEST_FAILED", status)

\* 577-626 and the catch: a response that is not ok
errorResponse(l, status, rnd) ==
    IF isRetryableError(status) /\ l.attempt < MAX_RETRIES
      THEN Backoff(l, rnd)
    ELSE IF status = 429
      THEN Throw(l, "http", "RateLimitError", "RATE_LIMIT_ERROR", 429)
    ELSE IF status = 401 \/ status = 403
      THEN Throw(l, "http", "TokenError", "API_AUTH_FAILED", 401)
    ELSE IF ~isRetryableError(status)
      THEN Throw(l, "http", "EtsyApiError", "API_REQUEST_FAILED", status)
    ELSE catchRetry(l, rnd)

\* one pass of the loop body for the outcome o of its fetch
attemptOutcome(l, o, rnd) ==
    IF o.kind = "neterr" THEN catchRetry(l, rnd)
    ELSE IF ~(o.status >= 200 /\ o.status <= 299) THEN errorResponse(l, o.status, rnd)
    ELSE IF o.body = "json"
      THEN [l EXCEPT !.pc = "done",
                     !.result = [phase |-> "http", class |-> "ok", code |-> "ok", status |-> o.status]]
    ELSE catchRetry(l, rnd)

OutcomeName(o) ==
    IF o.kind = "neterr" THEN "neterr"
    ELSE IF o.body = "garbage" THEN "garbage"
    ELSE IF o.status = 429 THEN "429"
    ELSE IF o.status >= 500 THEN "5xx"
    ELSE IF o.status >= 400 THEN "4xx"
    ELSE "2xx"

FetchFrom(i, outcomes) ==
    /\ inv[i].pc = "fetch"
    /\ \E o \in outcomes, rnd \in RandomDraws :
         Set(i, attemptOutcome([inv[i] EXCEPT !.st = NoState, !.rlRead = NoState,
                                              !.rlNow = 0, !.didReset = FALSE,
                                              !.cts = 0, !.pend = <<>>, !.wake = 0,
                                              !.httpCount = @ + 1,
                                              !.last = OutcomeName(o),
                                              !.lastStatus = o.status,
                                              !.allRetryable = @ /\ RetryableOutcome(o)],
                               o, rnd))
    /\ UNCHANGED <<now, tokenStore, rlStore, calls, nextResp, issued, admitted, overlapped>>

\* one HTTP attempt against the marketplace API
Fetch(i) == FetchFrom(i, HttpOutcomes)

\* one HTTP attempt against an API without transient failures
FetchPlain(i) == FetchFrom(i, PlainOutcomes)

\* BackoffDelay that passes the limiter again before the next attempt
BackoffDelay_Readmit(i) ==
    /\ inv[i].pc = "backoffDelay"
    /\ now >= inv[i].wake
    /\ Set(i, [inv[i] EXCEPT !.pc = "getRateLimitState", !.attempt = @ + 1, !.wake = 0])
    /\ UNCHANGED <<now, tokenStore, rlStore, calls, nextResp, issued, admitted, overlapped>>

\* 601 / 655: delay(backoffDelay) is over; continue with attempt + 1
BackoffDelay(i) ==
    /\ inv[i].pc = "backoffDelay"
    /\ now >= inv[i].wake
    /\ Set(i, [inv[i] EXCEPT !.pc = "fetch", !.attempt = @ + 1, !.wake = 0])
    /\ UNCHANGED <<now, tokenStore, rlStore, calls, nextResp, issued, admitted, overlapped>>

\* the call has returned or thrown; the instance is free again
Return(i) ==
    /\ inv[i].pc = "done"
    /\ Set(i, FreshLocals)
    /\ UNCHANGED <<now, tokenStore, rlStore, calls, nextResp, issued, admitted, overlapped>>

\* time passes: to the next instant at which something can happen
Wakes == {inv[i].wake : i \in {j \in Inv : inv[j].pc \in {"qpsDelay", "backoffDelay"}}}

Tick ==
    /\ \E t \in Grid \cup Wakes :
         /\ t > now
         /\ \A u \in Grid \cup Wakes : u > now => t <= u
         /\ now' = t
    /\ UNCHANGED <<tokenStore, rlStore, inv, calls, nextResp, issued, admitted, overlapped>>

Next ==
    \/ \E i \in Inv : Call(i) /\ UNCHANGED callers
    \/ \E i \in Inv : GetEtsyTokens(i) /\ UNCHANGED callers
    \/ \E i \in Inv : RefreshFetch(i) /\ UNCHANGED callers
    \/ \E i \in Inv : StoreEtsyTokens(i) /\ UNCHANGED callers
    \/ \E i \in Inv : GetRateLimitState(i) /\ UNCHANGED callers
    \/ \E i \in Inv : StoreFreshState(i) /\ UNCHANGED callers
    \/ \E i \in Inv : QpsDelay(i) /\ UNCHANGED callers
    \/ \E i \in Inv : StoreRateLimitState(i) /\ UNCHANGED callers
    \/ \E i \in Inv : Fetch(i) /\ UNCHANGED callers
    \/ \E i \in Inv : BackoffDelay(i) /\ UNCHANGED callers
    \/ \E i \in Inv : Return(i) /\ UNCHANGED callers
    \/ Tick /\ UNCHANGED callers

\* two instances at once, against an API without transient failures (no
\* attempt is retried, so no backoff sleep is ever started)
ConcNext ==
    \/ \E i \in Inv : Call(i) /\ UNCHANGED callers
    \/ \E i \in Inv : GetEtsyTokens(i) /\ UNCHANGED callers
    \/ \E i \in Inv : RefreshFetch(i) /\ UNCHANGED callers
    \/ \E i \in Inv : StoreEtsyTokens(i) /\ UNCHANGED callers
    \/ \E i \in Inv : GetRateLimitState(i) /\ UNCHANGED callers
    \/ \E i \in Inv : StoreFreshState(i) /\ UNCHANGED callers
    \/ \E i \in Inv : QpsDelay(i) /\ UNCHANGED callers
    \/ \E i \in Inv : StoreRateLimitState(i) /\ UNCHANGED callers
    \/ \E i \in Inv : FetchPlain(i) /\ UNCHANGED callers
    \/ \E i \in Inv : Return(i) /\ UNCHANGED callers
    \/ Tick /\ UNCHANGED callers

Spec == Init /\ [][Next]_vars

ConcSpec == InitConc /\ [][ConcNext]_vars

\* two instances at once, starting at the edge of the daily quota: one
\* request left and a full window, none left
InitLimiterQuota ==
    {RLState(QPD - 1, Midnight,
             <<Midnight - 900, Midnight - 900, Midnight - 500, Midnight - 3, Midnight - 3>>),
     RLState(QPD, Midnight, <<>>)}

InitQuotaConc ==
    InitWith(TwoInstances, {Tokens(0, 0, StartTime - 600000)}, InitLimiterQuota)

QuotaConcSpec == InitQuotaConc /\ [][ConcNext]_vars

\* the event loop runs a continuation once its await has settled, and time
\* passes: a step that can be taken is eventually taken
FairSpec == InitFair /\ [][Next]_vars /\ WF_vars(Next)

(* ------------------------------------------------------------------ *)
(* Properties                                                          *)
(* ------------------------------------------------------------------ *)
\* getValidToken has returned to makeRequest (client.ts 546 is done)
TokenReturned(i) == inv[i].pc = "getRateLimitState"

\* the record read was still valid beyond the safety margin when checked
ReadFresh(i) ==
    /\ inv[i].cur # NoTokens
    /\ inv[i].cur.expires_at - inv[i].tokNow > TOKEN_EXPIRY_BUFFER_MS

\* the record read was within the safety margin, or expired, when checked
ReadStale(i) ==
    /\ inv[i].cur # NoTokens
    /\ inv[i].cur.expires_at - inv[i].tokNow <= TOKEN_EXPIRY_BUFFER_MS

\* C1: a record read with expires_at - now > EXPIRY_BUFFER is returned as
\* it was read, with no refresh call and no write of the token record.
C1_FreshTokenReturnedAsIs ==
    \A i \in Inv :
        ReadFresh(i) =>
            /\ TokenReturned(i)
            /\ inv[i].ret = inv[i].cur
            /\ inv[i].refreshCalls = 0
            /\ inv[i].tokWrites = 0
            /\ tokenStore = inv[i].cur

C1_Witness ==
    \E i \in Inv :
        /\ ReadFresh(i)
        /\ TokenReturned(i)
        /\ inv[i].ret = inv[i].cur
        /\ inv[i].ret.expires_at = StartTime + TOKEN_EXPIRY_BUFFER_MS + 1

\* C2 as stated: a record read with expires_at - now <= EXPIRY_BUFFER leads
\* to exactly one refresh call and, for every token response, to a returned
\* record with a strictly later expires_at.
C2_RefreshStrictlyLater ==
    \A i \in Inv :
        ReadStale(i) =>
            /\ inv[i].pc # "refreshFetch" => inv[i].refreshCalls = 1
            /\ TokenReturned(i) => inv[i].ret.expires_at > inv[i].cur.expires_at

\* C2 as amended: the same, for token responses whose lifetime expires_in
\* is longer than the safety margin EXPIRY_BUFFER.
C2_RefreshStrictlyLaterWhenLifetimeExceedsBuffer ==
    \A i \in Inv :
        ReadStale(i) =>
            /\ inv[i].pc # "refreshFetch" => inv[i].refreshCalls = 1
            /\ (TokenReturned(i) /\ inv[i].data * 1000 > TOKEN_EXPIRY_BUFFER_MS) =>
                   /\ inv[i].ret = inv[i].upd
                   /\ inv[i].ret.expires_at > inv[i].cur.expires_at

C2_Witness ==
    \E i \in Inv :
        /\ ReadStale(i)
        /\ TokenReturned(i)
        /\ inv[i].refreshCalls = 1
        /\ inv[i].data * 1000 > TOKEN_EXPIRY_BUFFER_MS
        /\ inv[i].ret.expires_at > inv[i].cur.expires_at

\* C3: with no token record getValidToken fails with NOT_AUTHORIZED; when
\* the token endpoint answers the refresh with 400 or 401 it fails with
\* REFRESH_TOKEN_EXPIRED; neither path writes a token record.
C3_NotAuthorizedAndReauthorization ==
    \A i \in Inv :
        /\ inv[i].tokRead = "null" =>
               /\ inv[i].pc = "done"
               /\ inv[i].result = [phase |-> "token", class |-> "TokenError",
                                   code |-> "NOT_AUTHORIZED", status |-> 401]
               /\ inv[i].refreshCalls = 0
               /\ inv[i].tokWrites = 0
               /\ tokenStore = NoTokens
        /\ inv[i].refreshStatus \in {400, 401} =>
               /\ inv[i].pc = "done"
               /\ inv[i].result = [phase |-> "token", class |-> "TokenError",
                                   code |-> "REFRESH_TOKEN_EXPIRED", status |-> 401]
               /\ inv[i].tokWrites = 0
               /\ tokenStore = inv[i].cur

C3_Witness ==
    \E i \in Inv :
        /\ inv[i].refreshStatus = 400
        /\ inv[i].result.code = "REFRESH_TOKEN_EXPIRED"
        /\ tokenStore = inv[i].cur

\* C4: the stored access_token, refresh_token and expires_at always come
\* from one and the same upstream token response, also when two instances
\* refresh at the same time.
C4_StoredTripleFromOneResponse ==
    tokenStore # NoTokens => Triple(tokenStore) \in issued

C4_Witness ==
    /\ overlapped
    /\ \A i \in Inv : inv[i].tokWrites = 1 /\ TokenReturned(i)
    /\ \E i \in Inv : tokenStore # inv[i].ret
    /\ Triple(tokenStore) \in issued

\* the admissions of the history that lie in the trailing window of the
\* admission numbered k
InWindowOf(k) ==
    {m \in DOMAIN admitted :
        admitted[m] <= admitted[k] /\ admitted[k] - admitted[m] < SECOND_WINDOW_MS}

\* C5: with admit() calls made one at a time, no trailing 1000 ms window
\* ever holds more than QPS recorded admissions.
C5_AtMostQpsPerWindow ==
    ~overlapped => \A k \in DOMAIN admitted : Cardinality(InWindowOf(k)) <= QPS

\* the admit() of instance i read a state whose quota was used up
ReadQuotaUsedUp(i) ==
    /\ inv[i].rlRead # NoState
    /\ inv[i].rlRead.daily_count = QPD

\* C6: an admit() that finds daily_count = QPD_LIMIT with now < daily_reset
\* fails with DailyQuotaExceeded, writes nothing and admits nothing; one
\* that finds it with now >= daily_reset is admitted.
C6_QuotaBlocksUntilReset ==
    \A i \in Inv :
        ReadQuotaUsedUp(i) =>
            /\ inv[i].rlNow < inv[i].rlRead.daily_reset =>
                   /\ inv[i].pc = "done"
                   /\ inv[i].result = [phase |-> "admit", class |-> "RateLimitError",
                                       code |-> "RATE_LIMIT_ERROR", status |-> 429]
                   /\ inv[i].rlWrites = 0
                   /\ rlStore = inv[i].rlRead
                   /\ inv[i].httpCount = 0
            /\ inv[i].rlNow >= inv[i].rlRead.daily_reset =>
                   /\ inv[i].pc \in {"storeFreshState", "storeRateLimitState", "fetch"}
                   /\ inv[i].qpsSleeps = 0
                   /\ inv[i].pc = "fetch" =>
                          /\ inv[i].rlWrites = 2
                          /\ admitted[Len(admitted)] = inv[i].cts

C6_Witness ==
    \E i \in Inv :
        /\ ReadQuotaUsedUp(i)
        /\ inv[i].rlNow >= inv[i].rlRead.daily_reset
        /\ inv[i].pc = "fetch"
        /\ calls = 2
        /\ rlStore.daily_count = 1

\* instance i persists the state of its admission in this step
Admits(i) == inv[i].pc = "storeRateLimitState" /\ inv'[i].pc = "fetch"

\* an admit() that found now >= daily_reset continues with daily_count 0
\* and the next UTC midnight after now, is not refused for the quota, and
\* leaves daily_count = 1 and daily_reset > now in the store
ResetBeforeQuotaCheck ==
    /\ [](\A i \in Inv :
            (inv[i].didReset /\ inv[i].rlRead # NoState) =>
                /\ inv[i].rlNow >= inv[i].rlRead.daily_reset
                /\ inv[i].st.daily_count = 0
                /\ inv[i].st.second_timestamps = <<>>
                /\ inv[i].st.daily_reset > inv[i].rlNow
                /\ inv[i].st.daily_reset - inv[i].rlNow <= DAY_MS
                /\ inv[i].st.daily_reset % DAY_MS = 0
                /\ inv[i].result.phase # "admit")
    /\ [](\A i \in Inv :
            (inv[i].rlRead # NoState /\ inv[i].rlNow >= inv[i].rlRead.daily_reset) =>
                inv[i].didReset)
    /\ [][\A i \in Inv :
            (Admits(i) /\ inv[i].didReset) =>
                /\ rlStore'.daily_count = 1
                /\ rlStore'.daily_reset > inv[i].rlNow]_vars

C8_TokenThenAdmitThenHttp ==
    \A i \in Inv :
        /\ inv[i].result.phase = "token" =>
               /\ inv[i].rlRead = NoState /\ ~inv[i].rlDone /\ inv[i].rlWrites = 0
               /\ inv[i].qpsSleeps = 0 /\ inv[i].httpCount = 0 /\ inv[i].sleeps = 0
        /\ inv[i].result.phase = "admit" =>
               /\ inv[i].pc = "done"
               /\ inv[i].httpCount = 0 /\ inv[i].sleeps = 0 /\ inv[i].attempt = 0
        /\ inv[i].pc \in {"getRateLimitState", "storeFreshState", "qpsDelay",
                          "storeRateLimitState", "fetch", "backoffDelay"} =>
               inv[i].ret # NoTokens
        /\ (inv[i].rlDone \/ inv[i].rlWrites > 0) => inv[i].ret # NoTokens
        /\ inv[i].pc \in {"getEtsyTokens", "refreshFetch", "storeEtsyTokens",
                          "getRateLimitState", "storeFreshState", "qpsDelay",
                          "storeRateLimitState"} => inv[i].httpCount = 0
        /\ inv[i].httpCount > 0 =>
               /\ inv[i].ret # NoTokens
               /\ inv[i].rlDone /\ inv[i].rlWrites >= 1

C8_Witness ==
    \E i \in Inv :
        /\ inv[i].pc = "done"
        /\ inv[i].result.phase = "admit"
        /\ inv[i].ret # NoTokens
        /\ inv[i].refreshCalls = 1
        /\ inv[i].httpCount = 0

\* C9: at most 4 HTTP attempts; a further attempt only after attempts that
\* all ended in 429, 5xx or a network failure, each followed by one backoff
\* sleep; the first 2xx response ends the call successfully.
C9_RetryOnlyAfterRetryableOutcomes ==
    \A i \in Inv :
        /\ inv[i].httpCount <= MAX_RETRIES + 1
        /\ (inv[i].pc \in {"fetch", "backoffDelay"} /\ inv[i].httpCount >= 1) =>
               inv[i].allRetryable
        /\ inv[i].pc = "fetch" => inv[i].sleeps = inv[i].httpCount
        /\ inv[i].last \in {"2xx", "garbage"} =>
               /\ inv[i].pc = "done"
               /\ inv[i].result.class = "ok"

\* C10: after 4 attempts that all ended in retryable outcomes the error is
\* RateLimitError when the last was a 429, and MAX_RETRIES_EXCEEDED when
\* the last was a 5xx or a network failure.
C10_ExhaustionErrorByLastAttempt ==
    \A i \in Inv :
        (inv[i].httpCount = MAX_RETRIES + 1 /\ inv[i].allRetryable) =>
            /\ inv[i].pc = "done"
            /\ inv[i].sleeps = MAX_RETRIES
            /\ inv[i].last = "429" =>
                   inv[i].result = [phase |-> "http", class |-> "RateLimitError",
                                    code |-> "RATE_LIMIT_ERROR", status |-> 429]
            /\ inv[i].last \in {"5xx", "neterr"} =>
                   inv[i].result = [phase |-> "http", class |-> "EtsyApiError",
                                    code |-> "MAX_RETRIES_EXCEEDED", status |-> 503]

C10_Witness ==
    \E i \in Inv :
        /\ inv[i].pc = "done"
        /\ inv[i].httpCount = MAX_RETRIES + 1
        /\ inv[i].allRetryable
        /\ inv[i].last = "5xx"
        /\ inv[i].result.code = "MAX_RETRIES_EXCEEDED"

\* a response status that the retry policy does not name retryable
NonRetryableStatus(status) ==
    /\ ~(status >= 200 /\ status <= 299)
    /\ status # 429
    /\ ~(status >= 500 /\ status < 600)

\* C11: a response with a non-retryable status ends the call at once, on
\* whichever attempt it arrives: no backoff sleep follows it and no further
\* attempt is made; 401 and 403 give TokenError API_AUTH_FAILED, every other
\* such status gives EtsyApiError API_REQUEST_FAILED carrying that status.
C11_NonRetryableStatusFailsFast ==
    \A i \in Inv :
        (inv[i].last = "4xx" /\ NonRetryableStatus(inv[i].lastStatus)) =>
            /\ inv[i].pc = "done"
            /\ inv[i].sleeps = inv[i].httpCount - 1
            /\ inv[i].wake = 0
            /\ inv[i].lastStatus \in {401, 403} =>
                   inv[i].result = [phase |-> "http", class |-> "TokenError",
                                    code |-> "API_AUTH_FAILED", status |-> 401]
            /\ inv[i].lastStatus \notin {401, 403} =>
                   inv[i].result = [phase |-> "http", class |-> "EtsyApiError",
                                    code |-> "API_REQUEST_FAILED",
                                    status |-> inv[i].lastStatus]

C11_Witness ==
    \E i \in Inv :
        /\ inv[i].httpCount = 3
        /\ inv[i].lastStatus = 404
        /\ inv[i].pc = "done"
        /\ inv[i].result.code = "API_REQUEST_FAILED"
        /\ inv[i].sleeps = 2

\* the sleeps of a call: at most one for the limiter, of at most
\* SECOND_WINDOW_MS + BUFFER_MS, and at most MAX_RETRIES backoffs, of at most
\* MAX_DELAY_MS each
SleepsBounded ==
    \A i \in Inv :
        /\ inv[i].qpsSleeps <= 1
        /\ inv[i].sleeps <= MAX_RETRIES
        /\ inv[i].pc = "qpsDelay" =>
               /\ inv[i].wake - now <= SECOND_WINDOW_MS + BUFFER_MS
               /\ inv[i].wake - inv[i].rlNow <= SECOND_WINDOW_MS + BUFFER_MS
        /\ inv[i].pc = "backoffDelay" => inv[i].wake - now <= MAX_DELAY_MS

\* C12: every makeRequest call that is started ends (returns a response,
\* exhausts its retries or fails fast) whatever the upstream answers, after
\* at most one limiter sleep and at most 3 backoff sleeps, each bounded.
C12_EveryCallTerminates ==
    /\ []SleepsBounded
    /\ \A i \in OneInstance : (inv[i].pc # "idle") ~> (inv[i].pc = "done")

C12_Witness ==
    \E i \in Inv :
        /\ inv[i].pc = "done"
        /\ inv[i].qpsSleeps = 1
        /\ inv[i].sleeps = MAX_RETRIES
        /\ inv[i].result.code = "MAX_RETRIES_EXCEEDED"

(* ------------------------------------------------------------------ *)
(* calculateBackoffDelay as a function of its inputs                   *)
(* ------------------------------------------------------------------ *)
\* retry attempts the delay is computed for (the loop uses 0 .. 2; the cap
\* MAX_DELAY_MS is first reached at attempt 5)
MaxAttempt == 6

\* draws of Math.random() for two consecutive attempts, in thousandths
JitterDraws == {0, 1, 500, 998, 999}

InitBackoff ==
    /\ InitCalls(OneInstance, {NoTokens}, {NoState})
    /\ sent = NoSent
    /\ api = NoApi
    /\ oauth = NoOAuth
    /\ sync = NoSync
    /\ calc \in {[NoCalc EXCEPT !.pc = "input", !.attempt = a, !.rnd = r, !.rndNext = q] :
                    a \in 0 .. MaxAttempt, r \in JitterDraws, q \in JitterDraws}

\* the delays of attempt and attempt + 1 are computed
ComputeBackoff ==
    /\ calc.pc = "input"
    /\ calc' = [calc EXCEPT !.pc = "computed",
                            !.delay = calculateBackoffDelay(calc.attempt, calc.rnd),
                            !.delayNext = calculateBackoffDelay(calc.attempt + 1, calc.rndNext)]
    /\ UNCHANGED <<requests, sent, api, oauth, sync>>

BackoffNext == ComputeBackoff

BackoffSpec == InitBackoff /\ [][BackoffNext]_vars

\* C13: for every pair of jitter draws the delay of attempt n is at most
\* the delay of attempt n + 1, is at least min(BASE_DELAY_MS * 2^n,
\* MAX_DELAY_MS) and is at most MAX_DELAY_MS.
C13_BackoffMonotoneAndCapped ==
    calc.pc = "computed" =>
        /\ calc.delay <= calc.delayNext
        /\ calc.delay >= MinOf(BASE_DELAY_MS * Pow2(calc.attempt), MAX_DELAY_MS)
        /\ calc.delay <= MAX_DELAY_MS
        /\ calc.delayNext <= MAX_DELAY_MS

C13_Witness ==
    /\ calc.pc = "computed"
    /\ calc.attempt = 4
    /\ calc.rnd = 999
    /\ calc.delay = 20795
    /\ calc.delayNext = MAX_DELAY_MS

(* ------------------------------------------------------------------ *)
(* A stream of makeRequest calls and the HTTP requests it sends        *)
(* ------------------------------------------------------------------ *)
\* makeRequest calls of one stream
MaxStreamCalls == 6

\* the stream starts one minute before the daily reset
StreamStart == Midnight - 60000

\* the answers of an API that succeeds or fails transiently
StreamOutcomes ==
    {[kind |-> "resp", status |-> s, body |-> "json"] : s \in {200, 500}}

\* a token record that stays valid, and a limiter that is new or has
\* admitted QPD - 1 requests today, one HTTP request each
InitStream ==
    /\ now = StreamStart
    /\ tokenStore = Tokens(0, 0, Midnight + DAY_MS)
    /\ rlStore \in {NoState, RLState(QPD - 1, Midnight, <<>>)}
    /\ inv = [i \in OneInstance |-> FreshLocals]
    /\ calls = 0
    /\ nextResp = 1
    /\ issued = {Triple(tokenStore)}
    /\ admitted = <<>>
    /\ overlapped = FALSE
    /\ calc = NoCalc
    /\ api = NoApi
    /\ oauth = NoOAuth
    /\ sync = NoSync
    /\ sent = [before |-> IF rlStore = NoState THEN 0 ELSE rlStore.daily_count,
                at |-> <<>>]

\* the next makeRequest call of the stream is entered (client.ts 544)
StreamCall(i) ==
    /\ inv[i].pc = "idle"
    /\ calls < MaxStreamCalls
    /\ calls' = calls + 1
    /\ Set(i, [inv[i] EXCEPT !.pc = "getEtsyTokens"])
    /\ UNCHANGED <<now, tokenStore, rlStore, nextResp, issued, admitted, overlapped>>

\* one HTTP attempt (client.ts 562): a request goes out at the current instant
FetchStream(i) ==
    /\ FetchFrom(i, StreamOutcomes)
    /\ sent' = [sent EXCEPT !.at = Append(@, now)]
    /\ UNCHANGED <<calc, api, oauth, sync>>

StreamNext ==
    \/ \E i \in Inv : StreamCall(i) /\ UNCHANGED callers
    \/ \E i \in Inv : GetEtsyTokens(i) /\ UNCHANGED callers
    \/ \E i \in Inv : GetRateLimitState(i) /\ UNCHANGED callers
    \/ \E i \in Inv : StoreFreshState(i) /\ UNCHANGED callers
    \/ \E i \in Inv : QpsDelay(i) /\ UNCHANGED callers
    \/ \E i \in Inv : StoreRateLimitState(i) /\ UNCHANGED callers
    \/ \E i \in Inv : FetchStream(i)
    \/ \E i \in Inv : BackoffDelay(i) /\ UNCHANGED callers
    \/ \E i \in Inv : Return(i) /\ UNCHANGED callers
    \/ Tick /\ UNCHANGED callers

StreamSpec == InitStream /\ [][StreamNext]_vars

\* the requests sent in the trailing window of the request numbered k
SentInWindowOf(k) ==
    {m \in DOMAIN sent.at :
        sent.at[m] <= sent.at[k] /\ sent.at[k] - sent.at[m] < SECOND_WINDOW_MS}

\* no one-second window holds more than QPS requests sent
SentPerSecondWithinQps ==
    \A k \in DOMAIN sent.at : Cardinality(SentInWindowOf(k)) <= QPS

\* the requests sent before the daily reset at Midnight, those sent before
\* the stream started included
SentBeforeReset ==
    sent.before + Cardinality({k \in DOMAIN sent.at : sent.at[k] < Midnight})

\* no more than QPD requests are sent between two daily resets
SentPerDayWithinQpd == SentBeforeReset <= QPD

\* C14: counting every HTTP attempt, retries included, a stream of calls
\* run one at a time sends at most 5 requests in any one-second window and
\* at most 5000 requests between two daily resets.
C14_SentRequestsWithinLimits ==
    SentPerSecondWithinQps /\ SentPerDayWithinQpd

(* ------------------------------------------------------------------ *)
(* The public methods of EtsyClient (client.ts 689-903)                *)
(* ------------------------------------------------------------------ *)
\* Strings are sequences of characters.
Whitespace == {" ", "\t", "\n"}
Digits == {"0", "1", "2", "3", "4", "5", "6", "7", "8", "9"}

RECURSIVE trimStart(_)
trimStart(str) ==
    IF str # <<>> /\ Head(str) \in Whitespace THEN trimStart(Tail(str)) ELSE str

RECURSIVE trimEnd(_)
trimEnd(str) ==
    IF str # <<>> /\ str[Len(str)] \in Whitespace
      THEN trimEnd(SubSeq(str, 1, Len(str) - 1))
      ELSE str

\* String.prototype.trim
trim(str) == trimEnd(trimStart(str))

\* new EtsyApiError(message, code, statusCode)
EtsyApiError(code, status) ==
    [NoError EXCEPT !.class = "EtsyApiError", !.code = code, !.status = status]

\* validateShopId that takes every string for a shop id
validateShopId_AcceptAll(shopId) ==
    [ok |-> TRUE, value |-> trim(shopId), error |-> NoError]

\* client.ts validateShopId: the trimmed id, or INVALID_SHOP_ID when it is
\* empty or does not match /^\d+$/
validateShopId(shopId) ==
    LET trimmed == trim(shopId)
    IN  IF trimmed = <<>>
          THEN [ok |-> FALSE, value |-> <<>>, error |-> EtsyApiError("INVALID_SHOP_ID", 400)]
        ELSE IF ~(\A k \in DOMAIN trimmed : trimmed[k] \in Digits)
          THEN [ok |-> FALSE, value |-> <<>>, error |-> EtsyApiError("INVALID_SHOP_ID", 400)]
        ELSE [ok |-> TRUE, value |-> trimmed, error |-> NoError]

\* shop ids a caller may pass
ShopIdArgs ==
    {<<"1", "2">>, <<" ", "1", "2", "\n">>, <<>>, <<" ", " ">>,
     <<"1", "a">>, <<"1", " ", "2">>, <<"-", "1">>}

\* numbers of active listings a shop may hold
ListingCounts == {0, 1, 99, 100, 101, 200, 250}

\* counts a server that does not report faithfully may give
ReportedCounts == {0, 150, 300, 600}

\* page lengths such a server may return
PageLengths == {0, 40, 100}

\* the listings of a shop holding n, in server order
Catalog(n) == [k \in 1 .. n |-> 1000 + k]

\* the shop a shop id names
TheShop == [shop_id |-> 12, shop_name |-> <<"A", "c", "m", "e">>]

ListingServers ==
    {[NoServer EXCEPT !.mode = "faithful", !.n = n] : n \in ListingCounts} \cup
    {[NoServer EXCEPT !.mode = "unreliable"]}

\* what the listings endpoint answers with status 200 to a request at offset
ListingsResponses(server, offset) ==
    IF server.mode = "faithful"
      THEN {[results |-> SubSeq(Catalog(server.n), offset + 1,
                                MinOf(offset + DEFAULT_LIMIT, server.n)),
             count |-> server.n]}
      ELSE {[results |-> SubSeq(Catalog(DEFAULT_LIMIT), 1, len), count |-> c] :
                len \in PageLengths, c \in ReportedCounts}

\* a classified error of makeRequest leaves the method as it is
Propagate(a, result) ==
    [a EXCEPT !.pc = "failed", !.lastResult = result,
              !.error = [NoError EXCEPT !.class = result.class, !.code = result.code,
                                        !.status = result.status]]

\* a public method is entered with argument arg: 690 / 745
EnterWithShopId(op, arg, server) ==
    LET validated == validateShopId(arg)
    IN  IF validated.ok
          THEN [NoApi EXCEPT !.pc = "call", !.op = op, !.arg = arg, !.server = server,
                             !.shopId = validated.value]
          ELSE [NoApi EXCEPT !.pc = "failed", !.op = op, !.arg = arg, !.server = server,
                             !.error = validated.error]

\* getShopListings is called (689-695)
GetShopListings ==
    /\ api.pc = "idle"
    /\ \E arg \in ShopIdArgs, server \in ListingServers :
         api' = EnterWithShopId("getShopListings", arg, server)
    /\ UNCHANGED <<requests, calc, sent, oauth, sync>>

\* getShopDetails is called (744-749)
GetShopDetails ==
    /\ api.pc = "idle"
    /\ \E arg \in ShopIdArgs :
         api' = EnterWithShopId("getShopDetails", arg, [NoServer EXCEPT !.mode = "faithful"])
    /\ UNCHANGED <<requests, calc, sent, oauth, sync>>

\* listingIds.slice(i, i + 100)
batchOf(listingIds, i) ==
    SubSeq(listingIds, i + 1, MinOf(i + BATCH_SIZE, Len(listingIds)))

\* the endpoint a method asks makeRequest for: 698, 749, 796, 859.  The
\* shop name travels URL-encoded and reaches the server as it was trimmed.
endpoint(a) ==
    IF a.op = "getShopListings"
      THEN [NoRequest EXCEPT !.endpoint = "listings", !.shopId = a.shopId,
                             !.offset = a.offset]
    ELSE IF a.op = "getShopDetails"
      THEN [NoRequest EXCEPT !.endpoint = "shop", !.shopId = a.shopId]
    ELSE IF a.op = "getListingsWithImages"
      THEN [NoRequest EXCEPT !.endpoint = "batch", !.ids = batchOf(a.listingIds, a.i)]
    ELSE [NoRequest EXCEPT !.endpoint = "shops", !.name = trim(a.arg)]

\* this.makeRequest(endpoint) is entered from a public method
MakeRequest(i) ==
    /\ api.pc = "call"
    /\ inv[i].pc = "idle"
    /\ Set(i, [inv[i] EXCEPT !.pc = "getEtsyTokens"])
    /\ api' = [api EXCEPT !.pc = "await", !.execCalls = @ + 1,
                          !.reqs = Append(@, endpoint(api))]
    /\ UNCHANGED <<now, tokenStore, rlStore, calls, nextResp, issued, admitted,
                   overlapped, calc, sent, oauth, sync>>

\* the token record is read on behalf of the method
ApiGetEtsyTokens(i) ==
    /\ GetEtsyTokens(i)
    /\ api' = [api EXCEPT !.tokenReads = @ + 1]
    /\ UNCHANGED <<calc, sent, oauth, sync>>

\* one HTTP attempt on behalf of the method
FetchApi(i) ==
    /\ FetchPlain(i)
    /\ sent' = [sent EXCEPT !.at = Append(@, now)]
    /\ UNCHANGED <<calc, api, oauth, sync>>

\* listingsPage without the check of the offset against the reported count
listingsPage_NoSafetyCheck(a, response) ==
    LET all == a.allListings \o response.results
        page == [len |-> Len(response.results), count |-> response.count]
    IN  IF Len(response.results) < DEFAULT_LIMIT
          THEN [a EXCEPT !.pc = "returned", !.allListings = all, !.pages = Append(@, page),
                         !.value = [NoValue EXCEPT !.kind = "listings", !.listings = all]]
          ELSE [a EXCEPT !.pc = "call", !.allListings = all, !.pages = Append(@, page),
                         !.offset = a.offset + DEFAULT_LIMIT]

\* listingsPage that takes the reported count for the whole truth and stops
\* at the first page when it says so
listingsPage_OnePage(a, response) ==
    LET all == a.allListings \o response.results
        page == [len |-> Len(response.results), count |-> response.count]
    IN  [a EXCEPT !.pc = "returned", !.allListings = all, !.pages = Append(@, page),
                  !.value = [NoValue EXCEPT !.kind = "listings", !.listings = all]]

\* getShopListings 702-729: one pass of the loop for the response of a page,
\* and the return once hasMore is false
listingsPage(a, response) ==
    LET all == a.allListings \o response.results
        page == [len |-> Len(response.results), count |-> response.count]
        full == ~(Len(response.results) < DEFAULT_LIMIT)
        offset == IF full THEN a.offset + DEFAULT_LIMIT ELSE a.offset
        hasMore == full /\ ~(offset >= response.count)
    IN  IF hasMore
          THEN [a EXCEPT !.pc = "call", !.allListings = all, !.pages = Append(@, page),
                         !.offset = offset]
          ELSE [a EXCEPT !.pc = "returned", !.allListings = all, !.offset = offset,
                         !.pages = Append(@, page),
                         !.value = [NoValue EXCEPT !.kind = "listings", !.listings = all]]

\* the makeRequest call of getShopListings settles (700)
ListingsPage(i) ==
    /\ api.pc = "await" /\ api.op = "getShopListings"
    /\ inv[i].pc = "done"
    /\ IF inv[i].result.class = "ok"
         THEN \E response \in ListingsResponses(api.server, api.offset) :
                  api' = listingsPage([api EXCEPT !.lastResult = inv[i].result], response)
         ELSE api' = Propagate(api, inv[i].result)
    /\ Set(i, FreshLocals)
    /\ UNCHANGED <<now, tokenStore, rlStore, calls, nextResp, issued, admitted,
                   overlapped, calc, sent, oauth, sync>>

\* the makeRequest call of getShopDetails settles (750-757)
ShopDetails(i) ==
    /\ api.pc = "await" /\ api.op = "getShopDetails"
    /\ inv[i].pc = "done"
    /\ IF inv[i].result.class = "ok"
         THEN api' = [api EXCEPT !.pc = "returned", !.lastResult = inv[i].result,
                                 !.value = [NoValue EXCEPT !.kind = "shop", !.shop = TheShop]]
         ELSE api' = Propagate(api, inv[i].result)
    /\ Set(i, FreshLocals)
    /\ UNCHANGED <<now, tokenStore, rlStore, calls, nextResp, issued, admitted,
                   overlapped, calc, sent, oauth, sync>>

(* getListingsWithImages (772-837) *)
\* numbers of listing ids a caller may pass
ListingIdCounts == {0, 1, 100, 101, 250}

Image(id, rank) == [listing_image_id |-> id, rank |-> rank]

\* the images the server holds for a listing: none (no images field), an
\* empty array, three out of rank order with a tie, or eleven in descending
\* rank order
ImagesOf(listing_id) ==
    IF listing_id % 4 = 0 THEN [listing_id |-> listing_id, hasImages |-> FALSE, images |-> <<>>]
    ELSE IF listing_id % 4 = 1
      THEN [listing_id |-> listing_id, hasImages |-> TRUE, images |-> <<>>]
    ELSE IF listing_id % 4 = 2
      THEN [listing_id |-> listing_id, hasImages |-> TRUE,
            images |-> <<Image(1, 3), Image(2, 1), Image(3, 1)>>]
    ELSE [listing_id |-> listing_id, hasImages |-> TRUE,
          images |-> [k \in 1 .. 11 |-> Image(k, 12 - k)]]

\* what the batch endpoint answers with status 200 for the ids asked
BatchResponse(ids) ==
    [count |-> Len(ids), results |-> [k \in DOMAIN ids |-> ImagesOf(ids[k])]]

RECURSIVE insertByRank(_, _)
insertByRank(sorted, image) ==
    IF sorted = <<>> THEN <<image>>
    ELSE IF image.rank - Head(sorted).rank < 0 THEN <<image>> \o sorted
    ELSE <<Head(sorted)>> \o insertByRank(Tail(sorted), image)

\* images.sort((a, b) => a.rank - b.rank): ascending by rank, stable
RECURSIVE sortByRank(_)
sortByRank(images) ==
    IF images = <<>> THEN <<>>
    ELSE insertByRank(sortByRank(SubSeq(images, 1, Len(images) - 1)), images[Len(images)])

\* sortedImages that keeps the order the server gave
sortedImages_Unsorted(images) == SubSeq(images, 1, MinOf(IMAGE_LIMIT, Len(images)))

\* 816-818: sort by rank and keep the first 9
sortedImages(images) ==
    LET sorted == sortByRank(images)
    IN  SubSeq(sorted, 1, MinOf(IMAGE_LIMIT, Len(sorted)))

\* A Map is kept as the set of its entries [key, value], one per key.
\* 813-821: response.results.forEach with Map.prototype.set; of several
\* results for one listing the last one that has images is the one kept
collectImages(map, results) ==
    LET withImages == {k \in DOMAIN results :
                          results[k].hasImages /\ Len(results[k].images) > 0}
        lastOnes == {k \in withImages :
                        \A m \in withImages :
                            results[m].listing_id = results[k].listing_id => m <= k}
        set == {[key |-> results[k].listing_id,
                 value |-> sortedImages(results[k].images)] : k \in lastOnes}
    IN  {e \in map : \A n \in set : n.key # e.key} \cup set

\* getListingsWithImages is called (772-787)
GetListingsWithImages ==
    /\ api.pc = "idle"
    /\ \E n \in ListingIdCounts :
         api' = IF n = 0
                  THEN [NoApi EXCEPT !.pc = "returned", !.op = "getListingsWithImages",
                                     !.value = [NoValue EXCEPT !.kind = "images"]]
                  ELSE [NoApi EXCEPT !.pc = "call", !.op = "getListingsWithImages",
                                     !.listingIds = Catalog(n)]
    /\ UNCHANGED <<requests, calc, sent, oauth, sync>>

\* imagesBatchFailed that logs the failure and goes on with the next batch
imagesBatchFailed_Continue(a, result) ==
    IF a.i + BATCH_SIZE < Len(a.listingIds)
      THEN [a EXCEPT !.pc = "call", !.lastResult = result, !.i = a.i + BATCH_SIZE]
      ELSE [a EXCEPT !.pc = "returned", !.lastResult = result,
                     !.value = [NoValue EXCEPT !.kind = "images",
                                               !.images = a.imagesByListingId]]

\* 822-828: the catch block logs and rethrows
imagesBatchFailed(a, result) == Propagate(a, result)

\* 807-821, 787, 836: the batch is merged into the map; next batch or return
imagesBatch(a, response) ==
    LET map == collectImages(a.imagesByListingId, response.results)
        i == a.i + BATCH_SIZE
    IN  IF i < Len(a.listingIds)
          THEN [a EXCEPT !.pc = "call", !.imagesByListingId = map, !.i = i]
          ELSE [a EXCEPT !.pc = "returned", !.imagesByListingId = map, !.i = i,
                         !.value = [NoValue EXCEPT !.kind = "images", !.images = map]]

\* the makeRequest call for one batch settles (799)
ImagesBatch(i) ==
    /\ api.pc = "await" /\ api.op = "getListingsWithImages"
    /\ inv[i].pc = "done"
    /\ IF inv[i].result.class = "ok"
         THEN api' = imagesBatch([api EXCEPT !.lastResult = inv[i].result],
                                 BatchResponse(batchOf(api.listingIds, api.i)))
         ELSE api' = imagesBatchFailed(api, inv[i].result)
    /\ Set(i, FreshLocals)
    /\ UNCHANGED <<now, tokenStore, rlStore, calls, nextResp, issued, admitted,
                   overlapped, calc, sent, oauth, sync>>

(* getShopByName (852-903) *)
\* String.prototype.toLowerCase, on the letters that occur in the names
toLowerCaseChar(c) ==
    IF c = "A" THEN "a" ELSE IF c = "C" THEN "c" ELSE IF c = "M" THEN "m"
    ELSE IF c = "E" THEN "e" ELSE c

toLowerCase(str) == [k \in DOMAIN str |-> toLowerCaseChar(str[k])]

\* client.ts validateShopName: the trimmed name, or INVALID_SHOP_NAME
validateShopName(shopName) ==
    LET trimmed == trim(shopName)
    IN  IF trimmed = <<>>
          THEN [ok |-> FALSE, value |-> <<>>, error |-> EtsyApiError("INVALID_SHOP_NAME", 400)]
          ELSE [ok |-> TRUE, value |-> trimmed, error |-> NoError]

Acme == <<"A", "c", "m", "e">>
AcmeUpper == <<"A", "C", "M", "E">>
AcmeCrafts == <<"A", "c", "m", "e", " ", "C", "r", "a", "f", "t", "s">>

\* shop names a caller may pass
ShopNameArgs == {Acme, toLowerCase(Acme), AcmeCrafts, <<" ">> \o Acme, <<" ", " ">>}

Shop(id, name) == [shop_id |-> id, shop_name |-> name]

\* candidate lists the findShops endpoint may return; hasResults is FALSE
\* for a body without a results array
ShopsResponses ==
    {[hasResults |-> FALSE, results |-> <<>>]} \cup
    {[hasResults |-> TRUE, results |-> r] :
        r \in {<<>>,
               <<Shop(1, AcmeCrafts)>>,
               <<Shop(1, AcmeCrafts), Shop(2, Acme)>>,
               <<Shop(2, Acme), Shop(1, AcmeCrafts)>>,
               <<Shop(1, AcmeCrafts), Shop(3, AcmeUpper), Shop(2, Acme)>>}}

\* whether name begins with prefix
startsWith(name, prefix) ==
    Len(prefix) <= Len(name) /\ SubSeq(name, 1, Len(prefix)) = prefix

\* matchesName that accepts every shop whose name begins with the name asked
matchesName_Prefix(shop, shopName) ==
    startsWith(toLowerCase(shop.shop_name), toLowerCase(shopName))

\* 878: s.shop_name.toLowerCase() === shopName.toLowerCase()
matchesName(shop, shopName) == toLowerCase(shop.shop_name) = toLowerCase(shopName)

\* response.results.map((s) => s.shop_name)
shopNames(results) == [k \in DOMAIN results |-> results[k].shop_name]

\* 863-902: the shop returned, or the error thrown, for a response
shopsResponse(a, response) ==
    IF ~response.hasResults \/ Len(response.results) = 0
      THEN [a EXCEPT !.pc = "failed", !.error = EtsyApiError("NO_SHOPS_FOUND", 404)]
    ELSE LET matches == {k \in DOMAIN response.results :
                            matchesName(response.results[k], a.arg)}
         IN  IF matches = {}
               THEN [a EXCEPT !.pc = "failed",
                              !.error = [EtsyApiError("NO_EXACT_MATCH", 404)
                                           EXCEPT !.found = shopNames(response.results)]]
               ELSE [a EXCEPT !.pc = "returned",
                              !.value = [NoValue EXCEPT
                                  !.kind = "shop",
                                  !.shop = response.results[
                                      CHOOSE k \in matches : \A m \in matches : k <= m]]]

\* getShopByName is called (852-859)
GetShopByName ==
    /\ api.pc = "idle"
    /\ \E arg \in ShopNameArgs :
         LET validated == validateShopName(arg)
         IN  api' = IF validated.ok
                      THEN [NoApi EXCEPT !.pc = "call", !.op = "getShopByName", !.arg = arg]
                      ELSE [NoApi EXCEPT !.pc = "failed", !.op = "getShopByName",
                                         !.arg = arg, !.error = validated.error]
    /\ UNCHANGED <<requests, calc, sent, oauth, sync>>

\* the makeRequest call of getShopByName settles (860); pages records the
\* candidates received
ShopsFound(i) ==
    /\ api.pc = "await" /\ api.op = "getShopByName"
    /\ inv[i].pc = "done"
    /\ IF inv[i].result.class = "ok"
         THEN \E response \in ShopsResponses :
                  api' = shopsResponse([api EXCEPT !.lastResult = inv[i].result,
                                                   !.pages = response.results],
                                       response)
         ELSE api' = Propagate(api, inv[i].result)
    /\ Set(i, FreshLocals)
    /\ UNCHANGED <<now, tokenStore, rlStore, calls, nextResp, issued, admitted,
                   overlapped, calc, sent, oauth, sync>>

(* one call of a public method, on one instance *)
\* the limiter states the method may find
InitApiLimiter ==
    {NoState,
     RLState(4, Midnight, <<Midnight - 900, Midnight - 900, Midnight - 500, Midnight - 3>>)}

InitApi ==
    /\ InitCalls(OneInstance, {Tokens(0, 0, Midnight + DAY_MS)}, InitApiLimiter)
    /\ calc = NoCalc
    /\ sent = NoSent
    /\ api = NoApi
    /\ oauth = NoOAuth
    /\ sync = NoSync

ApiNext ==
    \/ GetShopListings
    \/ GetShopDetails
    \/ GetListingsWithImages
    \/ GetShopByName
    \/ \E i \in Inv : MakeRequest(i)
    \/ \E i \in Inv : ApiGetEtsyTokens(i)
    \/ \E i \in Inv : GetRateLimitState(i) /\ UNCHANGED callers
    \/ \E i \in Inv : StoreFreshState(i) /\ UNCHANGED callers
    \/ \E i \in Inv : QpsDelay(i) /\ UNCHANGED callers
    \/ \E i \in Inv : StoreRateLimitState(i) /\ UNCHANGED callers
    \/ \E i \in Inv : FetchApi(i)
    \/ \E i \in Inv : ListingsPage(i)
    \/ \E i \in Inv : ShopDetails(i)
    \/ \E i \in Inv : ImagesBatch(i)
    \/ \E i \in Inv : ShopsFound(i)
    \/ Tick /\ UNCHANGED callers

ApiSpec == InitApi /\ [][ApiNext]_vars

\* the steps a method takes once it has been entered, images aside
MethodSteps ==
    \/ \E i \in Inv : MakeRequest(i)
    \/ \E i \in Inv : ApiGetEtsyTokens(i)
    \/ \E i \in Inv : GetRateLimitState(i) /\ UNCHANGED callers
    \/ \E i \in Inv : StoreFreshState(i) /\ UNCHANGED callers
    \/ \E i \in Inv : QpsDelay(i) /\ UNCHANGED callers
    \/ \E i \in Inv : StoreRateLimitState(i) /\ UNCHANGED callers
    \/ \E i \in Inv : FetchApi(i)
    \/ \E i \in Inv : ListingsPage(i)
    \/ \E i \in Inv : ShopDetails(i)
    \/ \E i \in Inv : ShopsFound(i)
    \/ Tick /\ UNCHANGED callers

\* a settled await is resumed and time passes
FairApiSpec == InitApi /\ [][ApiNext]_vars /\ WF_vars(MethodSteps)

\* the number of pages of DEFAULT_LIMIT that n listings fill, at least one
PagesFor(n) ==
    IF (n + DEFAULT_LIMIT - 1) \div DEFAULT_LIMIT < 1
      THEN 1
      ELSE (n + DEFAULT_LIMIT - 1) \div DEFAULT_LIMIT

\* C15: against a server that holds N listings, reports count = N on every
\* page and returns the pages faithfully, getShopListings asks for offsets
\* 0, 100, 200, ... in that order and, when every request succeeds, has made
\* exactly max(1, ceil(N / 100)) requests and returns the N listings in
\* server order, none twice and none missing.
C15_FaithfulPagination ==
    (api.op = "getShopListings" /\ api.server.mode = "faithful") =>
        /\ \A k \in DOMAIN api.reqs :
               /\ api.reqs[k].endpoint = "listings"
               /\ api.reqs[k].offset = (k - 1) * DEFAULT_LIMIT
        /\ Len(api.reqs) <= PagesFor(api.server.n)
        /\ api.pc = "returned" =>
               /\ Len(api.reqs) = PagesFor(api.server.n)
               /\ api.value.kind = "listings"
               /\ api.value.listings = Catalog(api.server.n)
               /\ Len(api.value.listings) = api.server.n
               /\ \A j, k \in DOMAIN api.value.listings :
                      j # k => api.value.listings[j] # api.value.listings[k]

C15_Witness ==
    /\ api.op = "getShopListings" /\ api.server.mode = "faithful"
    /\ api.server.n = 250
    /\ api.pc = "returned"
    /\ Len(api.reqs) = 3
    /\ api.reqs[3].offset = 200
    /\ Len(api.value.listings) = 250

\* the largest count the pages received so far reported (0 when none)
MaxReported ==
    IF api.pages = <<>> THEN 0
    ELSE CHOOSE c \in {api.pages[k].count : k \in DOMAIN api.pages} :
             \A k \in DOMAIN api.pages : api.pages[k].count <= c

\* a further page is asked for only after a full page and at an offset
\* below the count that page reported
FurtherPageOnlyWhenDue ==
    \A k \in DOMAIN api.reqs :
        k > 1 =>
            /\ k - 1 \in DOMAIN api.pages
            /\ api.pages[k - 1].len >= DEFAULT_LIMIT
            /\ api.reqs[k].offset = api.reqs[k - 1].offset + DEFAULT_LIMIT
            /\ api.reqs[k].offset < api.pages[k - 1].count

\* C16: whatever pages and counts the server returns, getShopListings asks
\* for a further page only after a full page and below the count that page
\* reported, so it makes at most max(1, ceil(C / 100)) requests when no
\* reported count exceeds C, and it ends.
C16_PaginationTerminates ==
    /\ [](api.op = "getShopListings" =>
             /\ FurtherPageOnlyWhenDue
             /\ Len(api.reqs) <= PagesFor(MaxReported))
    /\ (api.op = "getShopListings") ~> (api.pc \in {"returned", "failed"})

C16_Witness ==
    /\ api.op = "getShopListings" /\ api.server.mode = "unreliable"
    /\ api.pc = "returned"
    /\ Len(api.reqs) = 6
    /\ MaxReported = 600
    /\ api.pages[6] = [len |-> DEFAULT_LIMIT, count |-> 150]

\* the same letter in either case
SameLetter(c, d) ==
    \/ c = d
    \/ \E pair \in {<<"A", "a">>, <<"C", "c">>, <<"M", "m">>, <<"E", "e">>} :
           (c = pair[1] /\ d = pair[2]) \/ (c = pair[2] /\ d = pair[1])

\* two names that differ in the case of their letters at most
EqualIgnoringCase(a, b) ==
    Len(a) = Len(b) /\ \A k \in DOMAIN a : SameLetter(a[k], b[k])

\* getShopByName has received the candidates api.pages from the server
CandidatesReceived ==
    /\ api.op = "getShopByName"
    /\ api.pc \in {"returned", "failed"}
    /\ api.lastResult.class = "ok"

\* C17: getShopByName returns a candidate only if its shop_name equals the
\* name asked ignoring case, returns such a candidate whenever one is among
\* the results, and fails with NO_EXACT_MATCH naming the candidates found
\* when there are candidates but none matches.
C17_ExactNameMatchOnly ==
    /\ (api.op = "getShopByName" /\ api.pc = "returned") =>
           /\ CandidatesReceived
           /\ api.value.kind = "shop"
           /\ \E k \in DOMAIN api.pages : api.pages[k] = api.value.shop
           /\ EqualIgnoringCase(api.value.shop.shop_name, api.arg)
    /\ CandidatesReceived =>
           /\ (\E k \in DOMAIN api.pages :
                   EqualIgnoringCase(api.pages[k].shop_name, api.arg))
                 => api.pc = "returned"
           /\ (/\ api.pages # <<>>
               /\ \A k \in DOMAIN api.pages :
                      ~EqualIgnoringCase(api.pages[k].shop_name, api.arg))
                 => /\ api.pc = "failed"
                    /\ api.value = NoValue
                    /\ api.error.class = "EtsyApiError"
                    /\ api.error.code = "NO_EXACT_MATCH"
                    /\ api.error.found = shopNames(api.pages)

C17_Witness ==
    /\ CandidatesReceived
    /\ api.arg = Acme
    /\ api.pages = <<Shop(2, Acme), Shop(1, AcmeCrafts)>>
    /\ api.pc = "returned"
    /\ api.value.shop = Shop(2, Acme)

\* the batches asked for so far, one after the other
RECURSIVE Flatten(_)
Flatten(batches) ==
    IF batches = <<>> THEN <<>> ELSE Head(batches).ids \o Flatten(Tail(batches))

\* the number of batches of BATCH_SIZE that n listing ids fill
BatchesFor(n) == (n + BATCH_SIZE - 1) \div BATCH_SIZE

\* images is the images of one listing as the map may hold them: at most 9,
\* ascending by rank, and the lowest-ranked ones the server holds for it
LowestRankedOf(images, held) ==
    /\ Len(images) = MinOf(IMAGE_LIMIT, Len(held))
    /\ \A j, k \in DOMAIN images : j < k => images[j].rank <= images[k].rank
    /\ \A k \in DOMAIN images : \E h \in DOMAIN held : held[h] = images[k]
    /\ \A j, k \in DOMAIN images : j # k => images[j] # images[k]
    /\ \A h \in DOMAIN held :
           (\A k \in DOMAIN images : images[k] # held[h]) =>
               \A k \in DOMAIN images : images[k].rank <= held[h].rank

\* C18: for n listing ids getListingsWithImages asks for the ids in order
\* in groups of at most 100 and, when every request succeeds, has made
\* exactly ceil(n / 100) requests that together cover the input once; every
\* value of the map returned is the at most 9 lowest-ranked images of its
\* listing, ascending by rank; a listing returned without images has no entry.
C18_ImageBatching ==
    api.op = "getListingsWithImages" =>
        /\ \A k \in DOMAIN api.reqs :
               /\ api.reqs[k].endpoint = "batch"
               /\ Len(api.reqs[k].ids) >= 1
               /\ Len(api.reqs[k].ids) <= BATCH_SIZE
        /\ Len(Flatten(api.reqs)) <= Len(api.listingIds)
        /\ Flatten(api.reqs) = SubSeq(api.listingIds, 1, Len(Flatten(api.reqs)))
        /\ api.pc = "returned" =>
               /\ Len(api.reqs) = BatchesFor(Len(api.listingIds))
               /\ Flatten(api.reqs) = api.listingIds
               /\ api.value.kind = "images"
               /\ \A e \in api.value.images :
                      /\ \E k \in DOMAIN api.listingIds : api.listingIds[k] = e.key
                      /\ Len(e.value) >= 1 /\ Len(e.value) <= IMAGE_LIMIT
                      /\ LowestRankedOf(e.value, ImagesOf(e.key).images)
               /\ \A e, f \in api.value.images : e.key = f.key => e = f
               /\ \A k \in DOMAIN api.listingIds :
                      (\E e \in api.value.images : e.key = api.listingIds[k])
                          <=> (/\ ImagesOf(api.listingIds[k]).hasImages
                               /\ ImagesOf(api.listingIds[k]).images # <<>>)

C18_Witness ==
    /\ api.op = "getListingsWithImages"
    /\ api.pc = "returned"
    /\ Len(api.listingIds) = 250
    /\ Len(api.reqs) = 3
    /\ Len(api.reqs[1].ids) = 100 /\ Len(api.reqs[2].ids) = 100 /\ Len(api.reqs[3].ids) = 50
    /\ \E e \in api.value.images :
           /\ e.key = 1003
           /\ Len(e.value) = IMAGE_LIMIT
           /\ e.value[1].rank = 1 /\ e.value[IMAGE_LIMIT].rank = 9

\* arg is digits only, whitespace before and after them aside
NumericShopId(arg) ==
    \E lo, hi \in DOMAIN arg :
        /\ lo <= hi
        /\ \A k \in DOMAIN arg : (k < lo \/ k > hi) => arg[k] \in Whitespace
        /\ \A k \in lo..hi : arg[k] \in Digits

\* a method that takes a shop id has been entered
ShopIdMethodEntered ==
    api.op \in {"getShopDetails", "getShopListings"} /\ api.pc # "idle"

\* the method has been refused for its shop id and has touched nothing
RefusedUntouched ==
    /\ api.pc = "failed"
    /\ api.value = NoValue
    /\ api.error = EtsyApiError("INVALID_SHOP_ID", 400)
    /\ api.tokenReads = 0
    /\ api.execCalls = 0
    /\ api.reqs = <<>>
    /\ sent.at = <<>>
    /\ rlStore \in InitApiLimiter
    /\ \A i \in OneInstance : inv[i] = FreshLocals

\* C19: getShopDetails and getShopListings called with a shop id that is
\* empty after trimming or not purely numeric fail with INVALID_SHOP_ID
\* without reading the token record, without an admission by the rate
\* limiter (its state stays as it was) and without sending a request, then
\* and ever after; with a valid id getShopDetails makes exactly one
\* makeRequest call.
C19_ShopIdValidatedFirst ==
    /\ [](ShopIdMethodEntered =>
            IF NumericShopId(api.arg)
              THEN /\ api.error.code # "INVALID_SHOP_ID"
                   /\ api.op = "getShopDetails" =>
                          /\ api.execCalls <= 1
                          /\ api.pc \in {"await", "returned", "failed"}
                                 => api.execCalls = 1
              ELSE RefusedUntouched)
    /\ [][(ShopIdMethodEntered /\ ~NumericShopId(api.arg)) =>
              /\ rlStore' = rlStore
              /\ tokenStore' = tokenStore
              /\ sent' = sent
              /\ api' = api]_vars

C19_Witness ==
    /\ api.op = "getShopListings"
    /\ api.arg = <<"1", " ", "2">>
    /\ RefusedUntouched
    /\ rlStore # NoState
    /\ now > StartTime

\* the method called pages through makeRequest
PagingMethod == api.op \in {"getShopListings", "getListingsWithImages"}

\* e is the error of the makeRequest outcome result, as it was
SameError(e, result) ==
    /\ result.class \notin {"ok", "none"}
    /\ e.class = result.class
    /\ e.code = result.code
    /\ e.status = result.status
    /\ e.found = <<>>

\* the method takes up the failure of the makeRequest call it awaits
FailedCallSettles ==
    /\ PagingMethod
    /\ api.pc = "await"
    /\ \E i \in OneInstance : inv[i].pc = "done" /\ inv[i].result.class # "ok"
    /\ api' # api

\* a failure taken up fails the method with the same error and without a
\* further request, and a failed method does nothing more
FailureEndsMethod ==
    /\ FailedCallSettles =>
           /\ api'.pc = "failed"
           /\ \E i \in OneInstance : SameError(api'.error, inv[i].result)
           /\ api'.reqs = api.reqs
           /\ api'.value = NoValue
    /\ (PagingMethod /\ api.pc = "failed") =>
           /\ api' = api
           /\ sent' = sent
           /\ \A i \in OneInstance : inv'[i] = inv[i]

\* C20: when the makeRequest call for a page of getShopListings or a batch
\* of getListingsWithImages fails, the method fails with that very error,
\* makes no request for a later page or batch, and returns nothing of what
\* it had collected.
C20_FailurePropagatesUnchanged ==
    /\ []((PagingMethod /\ api.pc = "failed" /\ api.execCalls >= 1) =>
            /\ SameError(api.error, api.lastResult)
            /\ api.value = NoValue
            /\ Len(api.reqs) = api.execCalls)
    /\ [][FailureEndsMethod]_vars

C20_Witness ==
    /\ api.op = "getListingsWithImages"
    /\ api.pc = "failed"
    /\ Len(api.listingIds) = 250
    /\ Len(api.reqs) = 2
    /\ api.imagesByListingId # {}
    /\ api.value = NoValue
    /\ api.error.code = "API_REQUEST_FAILED"
    /\ api.error.status = 404
    /\ now > Midnight

(* ------------------------------------------------------------------ *)
(* The OAuth handshake: the authorize route, the callback route and    *)
(* the handshake entries they keep in Edge Config.                     *)
(* ------------------------------------------------------------------ *)

\* the classes that extend AppError (errors.ts 37-155)
AppErrorClasses ==
    {"AppError", "OAuthError", "TokenError", "EtsyApiError", "RateLimitError",
     "ConfigError", "StorageError"}

OAuthError(message, code) == Thrown("OAuthError", code, 401, message)
ConfigError(message) == Thrown("ConfigError", "CONFIG_ERROR", 500, message)
StorageError(message, code) == Thrown("StorageError", code, 500, message)

\* errors.ts 168-185: what of an error a caller may see
toPublicError(err) ==
    IF err.class \in AppErrorClasses
      THEN [message |-> err.message, code |-> err.code]
    ELSE IF err.class = "Error"
      THEN [message |-> err.message, code |-> "none"]
    ELSE [message |-> "An unexpected error occurred", code |-> "none"]

\* the error redirect without the fallback for a missing code
errorRedirect_NoFallback(publicError) ==
    [NoOutcome EXCEPT !.kind = "redirect", !.status = 307, !.auth = "error",
                      !.error = publicError.code, !.message = publicError.message]

\* callback route 343-348: the redirect to the dashboard after a failure
errorRedirect(publicError) ==
    [NoOutcome EXCEPT !.kind = "redirect", !.status = 307, !.auth = "error",
                      !.error = IF publicError.code = "none" THEN "UNKNOWN_ERROR"
                                ELSE publicError.code,
                      !.message = publicError.message]

\* callback route 322-325: the redirect to the dashboard after success
successRedirect ==
    [NoOutcome EXCEPT !.kind = "redirect", !.status = 307, !.auth = "success"]

\* deleteOAuthState that lets a failed delete escape
deleteOAuthState_Throws(entries, state, ok) ==
    [threw |-> ~ok,
     entries |-> IF ok THEN [entries EXCEPT ![state] = NoEntry] ELSE entries]

\* part_007 192-204: the entry is removed when the store obeys; a failure
\* is logged and never thrown
deleteOAuthState(entries, state, ok) ==
    [threw |-> FALSE,
     entries |-> IF ok THEN [entries EXCEPT ![state] = NoEntry] ELSE entries]

\* accessToken.split('.'): the pieces between the dots
RECURSIVE split(_, _)
split(str, piece) ==
    IF str = <<>> THEN <<piece>>
    ELSE IF Head(str) = "." THEN <<piece>> \o split(Tail(str), <<>>)
    ELSE split(Tail(str), Append(piece, Head(str)))

\* extractUserId that takes a token without a dot for the user id
extractUserId_Lenient(accessToken) ==
    [ok |-> TRUE, value |-> split(accessToken, <<>>)[1], error |-> NoThrown]

\* callback route 439-449
extractUserId(accessToken) ==
    LET parts == split(accessToken, <<>>)
    IN  IF Len(parts) < 2
          THEN [ok |-> FALSE, value |-> <<>>,
                error |-> OAuthError("Invalid access token format received from Etsy",
                                     "INVALID_TOKEN_FORMAT")]
          ELSE [ok |-> TRUE, value |-> parts[1], error |-> NoThrown]

\* an EtsyTokenResponse
TokenResponse(access_token, refresh_token, expires_in) ==
    [access_token |-> access_token, refresh_token |-> refresh_token,
     expires_in |-> expires_in]

\* what the token endpoint may answer to a code exchange: 200 with a body,
\* a refusal with a JSON body naming an error (described or not), a refusal
\* with a body that is no JSON, or no answer at all (fetch rejects)
ExchangeAnswers ==
    {[kind |-> "ok", error |-> "none", described |-> FALSE, body |-> b] :
        b \in {TokenResponse(<<"7", ".", "a", ".", "b">>, <<"r">>, 3600),
               TokenResponse(<<"7", "a">>, <<"r">>, 3600),
               TokenResponse(<<"7", ".", "a">>, <<>>, 3600)}}
    \cup {[kind |-> "refused", error |-> e, described |-> TRUE, body |-> NoTokenResponse] :
            e \in {"invalid_grant", "invalid_request"}}
    \cup {[kind |-> "refused", error |-> "unparsable", described |-> FALSE,
           body |-> NoTokenResponse],
          [kind |-> "rejected", error |-> "none", described |-> FALSE,
           body |-> NoTokenResponse]}

\* callback route 361-429
exchangeCodeForTokens(answer) ==
    IF answer.kind = "rejected"
      THEN [ok |-> FALSE, value |-> NoTokenResponse,
            error |-> Thrown("Error", "none", 0, "fetch failed")]
    ELSE IF answer.kind = "refused"
      THEN LET errorMessage ==
                 IF answer.error = "invalid_grant"
                   THEN "Authorization code has expired. Please restart the authorization flow."
                 ELSE IF answer.error # "unparsable" /\ answer.described
                   THEN "error_description"
                 ELSE "Failed to exchange authorization code"
               errorCode == IF answer.error = "invalid_grant" THEN "CODE_EXPIRED"
                            ELSE "TOKEN_EXCHANGE_ERROR"
           IN  [ok |-> FALSE, value |-> NoTokenResponse,
                error |-> OAuthError(errorMessage, errorCode)]
    ELSE IF \/ answer.body.access_token = <<>>
            \/ answer.body.refresh_token = <<>>
            \/ answer.body.expires_in = 0
      THEN [ok |-> FALSE, value |-> NoTokenResponse,
            error |-> OAuthError("Invalid response from Etsy: missing required token fields",
                                 "INVALID_TOKEN_RESPONSE")]
    ELSE [ok |-> TRUE, value |-> answer.body, error |-> NoThrown]

\* callback route 327-349: the catch block of callback c, entered with the
\* handshake state o.  The delete it issues is not awaited: it is left in
\* cleanups to settle later
catch(o, c, err) ==
    LET l == o.cb[c]
    IN  [o EXCEPT !.cb[c] = [l EXCEPT !.pc = "done", !.thrown = err,
                                      !.outcome = errorRedirect(toPublicError(err)),
                                      !.deletes = IF l.state # "none" THEN @ + 1 ELSE @],
                  !.cleanups = IF l.state # "none"
                                 THEN [@ EXCEPT ![l.state] = @ + 1] ELSE @]

\* an OAuthStateData
Entry(code_verifier, created_at) ==
    [code_verifier |-> code_verifier, created_at |-> created_at]

\* what the handlers of the handshake leave alone, the clock and the token
\* record aside
besidesOAuth ==
    <<rlStore, inv, calls, nextResp, issued, admitted, overlapped, calc, sent, api, sync>>

\* a token record written by an earlier authorization
OldTokens ==
    [access_token |-> <<"5", ".", "o">>, refresh_token |-> <<"q">>,
     expires_at |-> StartTime + 3600000, user_id |-> <<"5">>]

\* the handshake before any handler runs: a token record of an earlier
\* authorization, and nothing else stored or the entry of an authorize run
\* that redirected a second ago
InitOAuth ==
    /\ InitCalls(OneInstance, {OldTokens}, {NoState})
    /\ calc = NoCalc
    /\ sent = NoSent
    /\ api = NoApi
    /\ sync = NoSync
    /\ \E env \in {"ok", "missing"}, before \in BOOLEAN :
         /\ env = "missing" => before
         /\ oauth = [NoOAuth EXCEPT
                      !.env = env,
                      !.entries = IF before
                                    THEN [@ EXCEPT !["s1"] =
                                            Entry(<<"v", "s1">>,
                                                  StartTime - PROPAGATION_DELAY_MS)]
                                    ELSE @,
                      !.generated = IF before THEN {"s1"} ELSE {}]

\* part_004 79-87: a random token; the tokens not yet generated stand for
\* one another, so the first of them is taken
generateState(generated) ==
    IF "s1" \notin generated THEN "s1" ELSE "s2"

\* authorize route 29-62: GET is called; the environment is checked, the
\* PKCE values and the state are generated, created_at is taken
Authorize ==
    /\ oauth.auth.pc \in {"idle", "done"}
    /\ oauth.authorized < MaxAuthorize
    /\ StateTokens \ oauth.generated # {}
    /\ \E state \in {generateState(oauth.generated)} :
         oauth' =
           IF oauth.env = "missing"
             THEN [oauth EXCEPT
                     !.authorized = @ + 1,
                     !.auth = [NoAuthorize EXCEPT
                                 !.pc = "done",
                                 !.outcome = [NoOutcome EXCEPT
                                                !.kind = "json", !.status = 500,
                                                !.error = "CONFIG_ERROR",
                                                !.message = "ETSY_API_KEY environment variable is required"]]]
             ELSE [oauth EXCEPT
                     !.authorized = @ + 1,
                     !.generated = @ \cup {state},
                     !.auth = [NoAuthorize EXCEPT !.pc = "storeOAuthState",
                                                  !.state = state,
                                                  !.created_at = now]]
    /\ UNCHANGED <<now, tokenStore, besidesOAuth>>

\* the authorize handler that redirects as soon as the entry is written
authorizeStored_NoDelay(a, t) ==
    [a EXCEPT !.pc = "delay", !.stored = t, !.wake = t]

\* authorize route 63-65: the write has returned, the timer is set
authorizeStored(a, t) ==
    [a EXCEPT !.pc = "delay", !.stored = t, !.wake = t + PROPAGATION_DELAY_MS]

\* authorize route 63, 90-103: storeOAuthState settles
AuthorizeStore ==
    /\ oauth.auth.pc = "storeOAuthState"
    /\ \E ok \in BOOLEAN :
         oauth' =
           IF ok
             THEN [oauth EXCEPT
                     !.entries[oauth.auth.state] =
                         Entry(<<"v", oauth.auth.state>>, oauth.auth.created_at),
                     !.auth = authorizeStored(oauth.auth, now)]
             ELSE [oauth EXCEPT
                     !.auth = [@ EXCEPT
                                 !.pc = "done",
                                 !.outcome = [NoOutcome EXCEPT
                                                !.kind = "json", !.status = 503,
                                                !.error = "EDGE_CONFIG_WRITE_ERROR",
                                                !.message = "Failed to store OAuth state in Edge Config"]]]
    /\ UNCHANGED <<now, tokenStore, besidesOAuth>>

\* authorize route 65-88: the timer has fired, the consent URL is built
\* with the state and the browser is redirected to it
AuthorizeRedirect ==
    /\ oauth.auth.pc = "delay"
    /\ now >= oauth.auth.wake
    /\ oauth' = [oauth EXCEPT
                   !.auth = [@ EXCEPT !.pc = "done",
                                      !.outcome = [NoOutcome EXCEPT
                                                     !.kind = "redirect", !.status = 307,
                                                     !.auth = "consent",
                                                     !.state = oauth.auth.state]]]
    /\ UNCHANGED <<now, tokenStore, besidesOAuth>>

\* callback route 220-250: GET is called with its query parameters
Callback(c) ==
    /\ oauth.cb[c].pc \in {"idle", "done"}
    /\ oauth.started < MaxCallbacks
    /\ \E code \in BOOLEAN, state \in StateTokens \cup {"none"}, error \in BOOLEAN :
         LET l == [NoCallback EXCEPT !.code = code, !.state = state, !.error = error,
                                     !.replay = state \in oauth.consumed]
             o == [oauth EXCEPT !.started = @ + 1, !.cb[c] = l]
         IN  oauth' =
               IF error
                 THEN catch(o, c, OAuthError("error_description", "ETSY_OAUTH_ERROR"))
               ELSE IF ~code
                 THEN catch(o, c, OAuthError("Missing authorization code", "MISSING_CODE"))
               ELSE IF state = "none"
                 THEN catch(o, c, OAuthError("Missing state parameter", "MISSING_STATE"))
               ELSE [o EXCEPT !.cb[c].pc = "getOAuthState"]
    /\ UNCHANGED <<now, tokenStore, besidesOAuth>>

\* the callback that goes on without a handshake entry
afterLookup_NoMismatch(o, c, data, t) ==
    IF data = NoEntry
      THEN [o EXCEPT !.cb[c] = [@ EXCEPT !.pc = "exchange", !.lookups = @ + 1,
                                         !.found = "absent"]]
      ELSE [o EXCEPT !.cb[c] = [@ EXCEPT !.pc = "exchange", !.lookups = @ + 1,
                                         !.found = "present", !.storedState = data,
                                         !.stateAge = t - data.created_at]]

\* callback route 254-285: getOAuthState has returned data at instant t
afterLookup(o, c, data, t) ==
    IF data = NoEntry
      THEN catch([o EXCEPT !.cb[c] = [@ EXCEPT !.lookups = @ + 1, !.found = "absent"]], c,
                 OAuthError("Invalid or expired state parameter. Please restart the authorization flow.",
                            "STATE_MISMATCH"))
      ELSE LET stateAge == t - data.created_at
               looked == [o EXCEPT !.cb[c] = [@ EXCEPT !.lookups = @ + 1,
                                                       !.found = "present",
                                                       !.storedState = data,
                                                       !.stateAge = stateAge]]
           IN  IF stateAge > OAUTH_STATE_MAX_AGE_MS
                 THEN [looked EXCEPT !.cb[c].pc = "deleteExpired"]
               ELSE IF o.env = "missing"
                 THEN catch(looked, c,
                            ConfigError("ETSY_API_KEY environment variable is required"))
               ELSE [looked EXCEPT !.cb[c].pc = "exchange"]

\* callback route 252, part_007 168-185: getOAuthState settles
CallbackGetOAuthState(c) ==
    /\ oauth.cb[c].pc = "getOAuthState"
    /\ \E ok \in BOOLEAN :
         oauth' =
           IF ok
             THEN afterLookup(oauth, c, oauth.entries[oauth.cb[c].state], now)
             ELSE catch([oauth EXCEPT !.cb[c] = [@ EXCEPT !.lookups = @ + 1,
                                                          !.found = "unreadable"]], c,
                        StorageError("Failed to retrieve OAuth state from Edge Config",
                                     "EDGE_CONFIG_READ_ERROR"))
    /\ UNCHANGED <<now, tokenStore, besidesOAuth>>

\* callback route 264-270: the delete of an expired entry settles and
\* STATE_EXPIRED is thrown
CallbackDeleteExpired(c) ==
    /\ oauth.cb[c].pc = "deleteExpired"
    /\ \E ok \in BOOLEAN :
         LET deleted == deleteOAuthState(oauth.entries, oauth.cb[c].state, ok)
             o == [oauth EXCEPT !.entries = deleted.entries,
                                !.cb[c] = [@ EXCEPT !.deletes = @ + 1,
                                                    !.failedDeletes =
                                                        IF ok THEN @ ELSE @ + 1]]
         IN  oauth' =
               IF deleted.threw
                 THEN catch(o, c, StorageError("Edge Config delete failed",
                                               "EDGE_CONFIG_DELETE_ERROR"))
                 ELSE catch(o, c,
                            OAuthError("Authorization session has expired. Please restart the authorization flow.",
                                       "STATE_EXPIRED"))
    /\ UNCHANGED <<now, tokenStore, besidesOAuth>>

\* callback route 287-310: the token endpoint answers; the user id is
\* extracted and the token record prepared
CallbackExchange(c) ==
    /\ oauth.cb[c].pc = "exchange"
    /\ \E answer \in ExchangeAnswers :
         LET tokenResponse == exchangeCodeForTokens(answer)
             state == oauth.cb[c].state
             o == [oauth EXCEPT
                     !.exchanged[state] = @ + 1,
                     !.cb[c] = [@ EXCEPT !.exchanges = @ + 1,
                                         !.exchange =
                                             IF tokenResponse.ok THEN "ok"
                                             ELSE tokenResponse.error.code]]
         IN  oauth' =
               IF ~tokenResponse.ok
                 THEN catch(o, c, tokenResponse.error)
                 ELSE LET userId == extractUserId(tokenResponse.value.access_token)
                      IN  IF ~userId.ok
                            THEN catch(o, c, userId.error)
                            ELSE [o EXCEPT
                                    !.cb[c] = [@ EXCEPT
                                      !.pc = "storeEtsyTokens",
                                      !.tokens =
                                        [access_token |-> tokenResponse.value.access_token,
                                         refresh_token |-> tokenResponse.value.refresh_token,
                                         expires_at |-> now + tokenResponse.value.expires_in * 1000,
                                         user_id |-> userId.value]]]
    /\ UNCHANGED <<now, tokenStore, besidesOAuth>>

\* callback route 310, part_007 211-225: storeEtsyTokens settles
CallbackStoreTokens(c) ==
    /\ oauth.cb[c].pc = "storeEtsyTokens"
    /\ \E ok \in BOOLEAN :
         IF ok
           THEN /\ tokenStore' = oauth.cb[c].tokens
                /\ oauth' = [oauth EXCEPT !.cb[c] = [@ EXCEPT !.pc = "deleteOAuthState",
                                                              !.wrote = TRUE]]
           ELSE /\ tokenStore' = tokenStore
                /\ oauth' = catch(oauth, c,
                                  StorageError("Failed to store Etsy tokens in Edge Config",
                                               "EDGE_CONFIG_WRITE_ERROR"))
    /\ UNCHANGED <<now, besidesOAuth>>

\* callback route 318-325: the delete of the consumed entry settles and
\* the browser is redirected with auth=success
CallbackDeleteState(c) ==
    /\ oauth.cb[c].pc = "deleteOAuthState"
    /\ \E ok \in BOOLEAN :
         LET deleted == deleteOAuthState(oauth.entries, oauth.cb[c].state, ok)
             o == [oauth EXCEPT !.entries = deleted.entries,
                                !.cb[c] = [@ EXCEPT !.deletes = @ + 1,
                                                    !.failedDeletes =
                                                        IF ok THEN @ ELSE @ + 1]]
         IN  oauth' =
               IF deleted.threw
                 THEN catch(o, c, StorageError("Edge Config delete failed",
                                               "EDGE_CONFIG_DELETE_ERROR"))
                 ELSE [o EXCEPT !.consumed = @ \cup {oauth.cb[c].state},
                                !.cb[c] = [@ EXCEPT !.pc = "done",
                                                    !.outcome = successRedirect]]
    /\ UNCHANGED <<now, tokenStore, besidesOAuth>>

\* callback route 335-341: a delete issued by a catch block settles, after
\* the handler has returned or while another runs
CleanupSettles(state) ==
    /\ oauth.cleanups[state] > 0
    /\ \E ok \in BOOLEAN :
         oauth' = [oauth EXCEPT
                     !.cleanups[state] = @ - 1,
                     !.entries = deleteOAuthState(oauth.entries, state, ok).entries]
    /\ UNCHANGED <<now, tokenStore, besidesOAuth>>

\* the instants that matter to the handshake: the end of the propagation
\* delay, and the ages of exactly and just over ten minutes of each entry
OAuthInstants ==
    {oauth.auth.wake : x \in {y \in {1} : oauth.auth.pc = "delay"}}
    \cup {oauth.entries[s].created_at + OAUTH_STATE_MAX_AGE_MS + d :
            s \in {t \in StateTokens : oauth.entries[t] # NoEntry}, d \in {0, 1}}

\* time passes
OAuthTick ==
    /\ \E t \in OAuthInstants : t > now /\ now' = t
    /\ UNCHANGED <<tokenStore, oauth, besidesOAuth>>

OAuthNext ==
    \/ Authorize
    \/ AuthorizeStore
    \/ AuthorizeRedirect
    \/ \E c \in Callbacks : Callback(c)
    \/ \E c \in Callbacks : CallbackGetOAuthState(c)
    \/ \E c \in Callbacks : CallbackDeleteExpired(c)
    \/ \E c \in Callbacks : CallbackExchange(c)
    \/ \E c \in Callbacks : CallbackStoreTokens(c)
    \/ \E c \in Callbacks : CallbackDeleteState(c)
    \/ \E state \in StateTokens : CleanupSettles(state)
    \/ OAuthTick

OAuthSpec == InitOAuth /\ [][OAuthNext]_vars

\* callback c has returned
Returned(c) == oauth.cb[c].pc = "done"

\* callback c found its handshake entry older than ten minutes
FoundExpired(c) ==
    /\ oauth.cb[c].found = "present"
    /\ oauth.cb[c].stateAge > OAUTH_STATE_MAX_AGE_MS

\* a callback that found its entry expired fails with STATE_EXPIRED
\* without a request to the token endpoint
ExpiredFailsUnexchanged ==
    \A c \in Callbacks :
        (Returned(c) /\ FoundExpired(c)) =>
            /\ oauth.cb[c].outcome.auth = "error"
            /\ oauth.cb[c].outcome.error = "STATE_EXPIRED"
            /\ oauth.cb[c].exchanges = 0
            /\ ~oauth.cb[c].wrote

\* a callback that found its entry expired has called deleteOAuthState once
ExpiredDeletedOnce ==
    \A c \in Callbacks :
        (Returned(c) /\ FoundExpired(c)) => oauth.cb[c].deletes = 1

\* C21: a callback whose handshake entry is older than 10 minutes fails
\* with STATE_EXPIRED without exchanging the code, whether or not the
\* delete succeeds, and deleteOAuthState is invoked exactly once during
\* that callback.
C21_ExpiredFailsAndDeletesOnce ==
    ExpiredFailsUnexchanged /\ ExpiredDeletedOnce

\* C22: a callback whose handshake entry has an age of 10 minutes or more,
\* exactly 10 minutes included, makes no request to the token endpoint,
\* writes no token record and does not end in success.
C22_NoExchangeAtTenMinutes ==
    \A c \in Callbacks :
        (oauth.cb[c].found = "present"
           /\ oauth.cb[c].stateAge >= OAUTH_STATE_MAX_AGE_MS) =>
            /\ oauth.cb[c].exchanges = 0
            /\ ~oauth.cb[c].wrote
            /\ oauth.cb[c].outcome.auth # "success"

\* C23: a callback with a code and a state under which no handshake entry
\* is stored fails with STATE_MISMATCH at once, without a request to the
\* token endpoint and without writing a token record; a callback without
\* a code or without a state fails before getOAuthState is called.
C23_UnknownStateIsMismatch ==
    \A c \in Callbacks :
        /\ oauth.cb[c].found = "absent" =>
              /\ oauth.cb[c].code /\ oauth.cb[c].state # "none"
              /\ Returned(c)
              /\ oauth.cb[c].outcome.auth = "error"
              /\ oauth.cb[c].outcome.error = "STATE_MISMATCH"
              /\ oauth.cb[c].exchanges = 0
              /\ oauth.cb[c].tokens = NoTokens
              /\ ~oauth.cb[c].wrote
        /\ (oauth.cb[c].pc # "idle"
              /\ (~oauth.cb[c].code \/ oauth.cb[c].state = "none")) =>
              /\ Returned(c)
              /\ oauth.cb[c].outcome.auth = "error"
              /\ oauth.cb[c].lookups = 0
              /\ oauth.cb[c].found = "none"
              /\ oauth.cb[c].exchanges = 0
              /\ ~oauth.cb[c].wrote

C23_Witness ==
    \E c \in Callbacks :
        /\ Returned(c)
        /\ oauth.cb[c].code /\ oauth.cb[c].state = "s2" /\ ~oauth.cb[c].error
        /\ oauth.cb[c].found = "absent"
        /\ oauth.cb[c].lookups = 1
        /\ oauth.cb[c].outcome.error = "STATE_MISMATCH"
        /\ oauth.entries["s1"] # NoEntry
        /\ tokenStore = OldTokens

\* a callback that carries a code and a state with which an earlier
\* callback ended in success fails with STATE_MISMATCH, unexchanged
ReplayIsMismatch ==
    \A c \in Callbacks :
        (/\ Returned(c)
         /\ oauth.cb[c].replay
         /\ oauth.cb[c].code /\ ~oauth.cb[c].error
         /\ oauth.cb[c].found # "unreadable") =>
            /\ oauth.cb[c].outcome.error = "STATE_MISMATCH"
            /\ oauth.cb[c].exchanges = 0

\* no handshake entry is used for two requests to the token endpoint
OneExchangePerEntry ==
    \A s \in StateTokens : oauth.exchanged[s] <= 1

\* C24: once a callback with state s has ended in success, every later
\* callback that carries a code and the same state fails with
\* STATE_MISMATCH and makes no request to the token endpoint, and no
\* handshake entry is used for two token exchanges.
C24_ConsumedExactlyOnce ==
    ReplayIsMismatch /\ OneExchangePerEntry

\* the error code a callback ends with, or "success", as its parameters,
\* the lookup, the age, the environment, the token endpoint and the write
\* of the token record decide it
PathOutcome(l) ==
    IF l.error THEN "ETSY_OAUTH_ERROR"
    ELSE IF ~l.code THEN "MISSING_CODE"
    ELSE IF l.state = "none" THEN "MISSING_STATE"
    ELSE IF l.found = "unreadable" THEN "EDGE_CONFIG_READ_ERROR"
    ELSE IF l.found = "absent" THEN "STATE_MISMATCH"
    ELSE IF l.stateAge > OAUTH_STATE_MAX_AGE_MS THEN "STATE_EXPIRED"
    ELSE IF oauth.env = "missing" THEN "CONFIG_ERROR"
    ELSE IF l.exchange = "none" THEN "UNKNOWN_ERROR"
    ELSE IF l.exchange # "ok" THEN l.exchange
    ELSE IF l.tokens = NoTokens THEN "INVALID_TOKEN_FORMAT"
    ELSE IF ~l.wrote THEN "EDGE_CONFIG_WRITE_ERROR"
    ELSE "success"

\* C25: a callback that carries a state has called deleteOAuthState for it
\* when it returns, whatever the path it took, and what it returns is
\* decided by that path alone: a delete that fails changes nothing of it.
C25_DeleteOnEveryExit ==
    \A c \in Callbacks :
        Returned(c) =>
            /\ oauth.cb[c].state # "none" => oauth.cb[c].deletes >= 1
            /\ oauth.cb[c].state = "none" => oauth.cb[c].deletes = 0
            /\ IF PathOutcome(oauth.cb[c]) = "success"
                 THEN oauth.cb[c].outcome = successRedirect
                 ELSE /\ oauth.cb[c].outcome.auth = "error"
                      /\ oauth.cb[c].outcome.error = PathOutcome(oauth.cb[c])

C25_Witness ==
    \E c \in Callbacks :
        /\ Returned(c)
        /\ oauth.cb[c].state = "s1"
        /\ oauth.cb[c].deletes = 1
        /\ oauth.cb[c].failedDeletes = 1
        /\ oauth.cb[c].outcome = successRedirect
        /\ oauth.entries["s1"] # NoEntry

\* C26: a callback that has returned has produced a redirect, to success
\* or to an error; it is the success redirect only if in this callback the
\* lookup found the entry, the age check passed, the token endpoint gave
\* tokens, the user id was extracted and the token record was written; an
\* error redirect carries an error code and a message.
C26_OneTerminalRedirect ==
    \A c \in Callbacks :
        /\ ~Returned(c) => oauth.cb[c].outcome = NoOutcome
        /\ Returned(c) =>
              /\ oauth.cb[c].outcome.kind = "redirect"
              /\ oauth.cb[c].outcome.auth \in {"success", "error"}
        /\ oauth.cb[c].outcome.auth = "success" =>
              /\ oauth.cb[c].thrown = NoThrown
              /\ oauth.cb[c].lookups = 1 /\ oauth.cb[c].found = "present"
              /\ oauth.cb[c].stateAge <= OAUTH_STATE_MAX_AGE_MS
              /\ oauth.cb[c].exchanges = 1 /\ oauth.cb[c].exchange = "ok"
              /\ oauth.cb[c].tokens # NoTokens
              /\ oauth.cb[c].tokens.user_id = <<"7">>
              /\ oauth.cb[c].wrote
              /\ oauth.cb[c].outcome.error = "none"
        /\ oauth.cb[c].outcome.auth = "error" =>
              /\ oauth.cb[c].thrown # NoThrown
              /\ oauth.cb[c].outcome.error # "none"
              /\ oauth.cb[c].outcome.message # "none"

C26_Witness ==
    \E c \in Callbacks :
        /\ Returned(c)
        /\ oauth.cb[c].exchanges = 1
        /\ oauth.cb[c].thrown.class = "Error"
        /\ oauth.cb[c].outcome.auth = "error"
        /\ oauth.cb[c].outcome.error = "UNKNOWN_ERROR"
        /\ oauth.cb[c].outcome.message = "fetch failed"
        /\ oauth.consumed = {"s1"}

\* a token record is written by the storeEtsyTokens step of a callback and
\* by nothing else
OnlyCallbackWrites ==
    tokenStore' # tokenStore =>
        \E c \in Callbacks :
            /\ oauth.cb[c].pc = "storeEtsyTokens"
            /\ ~oauth.cb[c].wrote /\ oauth'.cb[c].wrote
            /\ tokenStore' = oauth.cb[c].tokens

\* C27: a callback that ends with an error redirect has written no token
\* record, and the record stored before is the record stored after; a
\* token record is written only from an access token that holds a '.',
\* with the text before the first '.' as user id.
C27_FailedCallbackWritesNothing ==
    /\ [](\A c \in Callbacks :
            /\ oauth.cb[c].outcome.auth = "error" => ~oauth.cb[c].wrote
            /\ oauth.cb[c].wrote =>
                  /\ \E k \in DOMAIN oauth.cb[c].tokens.access_token :
                         /\ oauth.cb[c].tokens.access_token[k] = "."
                         /\ oauth.cb[c].tokens.user_id =
                                SubSeq(oauth.cb[c].tokens.access_token, 1, k - 1)
                         /\ \A j \in 1 .. k - 1 :
                                oauth.cb[c].tokens.access_token[j] # "."
                  /\ oauth.cb[c].exchange = "ok"
                  /\ oauth.cb[c].pc \in {"deleteOAuthState", "done"})
    /\ []((oauth.consumed = {} /\ \A c \in Callbacks : ~oauth.cb[c].wrote)
             => tokenStore = OldTokens)
    /\ [][OnlyCallbackWrites]_vars

C27_Witness ==
    \E c \in Callbacks :
        /\ Returned(c)
        /\ oauth.cb[c].exchanges = 1
        /\ oauth.cb[c].outcome.error = "INVALID_TOKEN_FORMAT"
        /\ ~oauth.cb[c].wrote
        /\ oauth.consumed = {}
        /\ tokenStore = OldTokens

\* the write of the handshake entry: it is keyed by the state generated
\* and holds the verifier and the instant taken before the write
EntryWritten ==
    (oauth.auth.stored = 0 /\ oauth'.auth.stored > 0) =>
        /\ oauth.auth.pc = "storeOAuthState"
        /\ oauth'.auth.pc = "delay"
        /\ oauth'.auth.state = oauth.auth.state
        /\ oauth'.entries[oauth.auth.state] =
               Entry(<<"v", oauth.auth.state>>, oauth.auth.created_at)
        /\ oauth.auth.created_at <= now

\* C28: authorize redirects to the consent URL only after the handshake
\* entry keyed by the state of the URL has been written and the
\* propagation delay has passed since; when the write fails it answers
\* with an error, never redirects, and leaves no entry for a callback.
C28_RedirectAfterStoreAndDelay ==
    /\ [](/\ oauth.auth.outcome.auth = "consent" =>
               /\ oauth.auth.stored > 0
               /\ oauth.auth.outcome.state = oauth.auth.state
               /\ now >= oauth.auth.stored + PROPAGATION_DELAY_MS
          /\ (oauth.auth.pc = "done" /\ oauth.auth.stored = 0) =>
               /\ oauth.auth.outcome.kind = "json"
               /\ oauth.auth.outcome.status \in {500, 503}
               /\ oauth.auth.outcome.auth = "none"
               /\ oauth.auth.state # "none" =>
                      oauth.entries[oauth.auth.state] = NoEntry
          /\ oauth.auth.pc \in {"idle", "storeOAuthState"} =>
               oauth.auth.stored = 0)
    /\ [][EntryWritten]_vars

C28_Witness ==
    /\ oauth.auth.pc = "done"
    /\ oauth.auth.outcome.auth = "consent"
    /\ oauth.auth.outcome.state = "s2"
    /\ oauth.entries["s2"] = Entry(<<"v", "s2">>, oauth.auth.created_at)
    /\ now = oauth.auth.stored + PROPAGATION_DELAY_MS

(* ------------------------------------------------------------------ *)
(* The sync routes: the cron entry point with its shared secret, the   *)
(* manual entry point, and the pipeline both run.                      *)
(* ------------------------------------------------------------------ *)

\* a header or environment variable with a value
Value(chars) == [present |-> TRUE, value |-> chars]

Bearer == <<"B", "e", "a", "r", "e", "r", " ">>
Secret == <<"k", "1">>

\* values of CRON_SECRET: unset, empty, set
CronSecrets == {Absent, Value(<<>>), Value(Secret)}

\* values of the Authorization header as the handler reads it
AuthorizationHeaders ==
    {Absent, Value(<<>>), Value(Bearer \o Secret), Value(Bearer \o <<"k", "2">>),
     Value(Bearer \o <<"k">>), Value(Bearer \o <<"k", "1", "x">>), Value(Bearer),
     Value(Secret), Value(<<"b", "e", "a", "r", "e", "r", " ">> \o Secret),
     Value(<<"B", "a", "s", "i", "c", " ">> \o Secret)}

\* cron route 50-64: equal lengths and equal bytes
safeCompare(a, b) ==
    IF Len(a) # Len(b) THEN FALSE
    ELSE \A k \in DOMAIN a : a[k] = b[k]

\* validateCronSecret that takes any header that begins with "Bearer "
validateCronSecret_AnyBearer(authHeader, expectedSecret) ==
    /\ authHeader.present
    /\ Len(authHeader.value) >= Len(Bearer)
    /\ SubSeq(authHeader.value, 1, Len(Bearer)) = Bearer

\* cron route 73-91
validateCronSecret(authHeader, expectedSecret) ==
    IF ~expectedSecret.present \/ expectedSecret.value = <<>> THEN FALSE
    ELSE IF ~authHeader.present \/ authHeader.value = <<>> THEN FALSE
    ELSE safeCompare(authHeader.value, Bearer \o expectedSecret.value)

\* what the steps of the pipeline may throw
TokenError(code) == Thrown("TokenError", code, 401, code)
RateLimitError == Thrown("RateLimitError", "RATE_LIMIT_ERROR", 429, "Rate limit exceeded")
ApiError(code, statusCode) == Thrown("EtsyApiError", code, statusCode, code)

\* part_004 288-330 and part_007 232-246: getValidToken
TokenFailures ==
    {TokenError("NOT_AUTHORIZED"), TokenError("REFRESH_TOKEN_EXPIRED"),
     TokenError("TOKEN_REFRESH_FAILED"),
     StorageError("Failed to retrieve Etsy tokens from Edge Config",
                  "EDGE_CONFIG_READ_ERROR")}

\* part_004 389-429, 467-504, 544-674, 863-893: a public method of
\* EtsyClient
MethodFailures ==
    {TokenError("NOT_AUTHORIZED"), TokenError("API_AUTH_FAILED"),
     RateLimitError,
     ApiError("INVALID_SHOP_ID", 400), ApiError("API_REQUEST_FAILED", 404),
     ApiError("API_REQUEST_FAILED", 400), ApiError("NO_EXACT_MATCH", 404),
     ApiError("MAX_RETRIES_EXCEEDED", 503)}

\* cron route 234-245, manual route 334-345: instanceof, most specific
\* class first (RateLimitError extends EtsyApiError)
statusCodeFor(error) ==
    IF error.class = "TokenError" THEN 401
    ELSE IF error.class = "RateLimitError" THEN 429
    ELSE IF error.class \in {"EtsyApiError", "RateLimitError"}
      THEN (IF error.statusCode # 0 THEN error.statusCode ELSE 502)
    ELSE IF error.class = "StorageError" THEN 503
    ELSE IF error.class = "ConfigError" THEN 500
    ELSE 500

\* what the sync routes leave alone
besidesSync ==
    <<now, tokenStore, rlStore, inv, calls, nextResp, issued, admitted, overlapped,
      calc, sent, api, oauth>>

\* a sync-metadata record
Metadata(status, listingsCount, feedUrl) ==
    [status |-> status, listingsCount |-> listingsCount, feedUrl |-> feedUrl]

InitSync ==
    /\ InitCalls(OneInstance, {NoTokens}, {NoState})
    /\ calc = NoCalc
    /\ sent = NoSent
    /\ api = NoApi
    /\ oauth = NoOAuth
    /\ sync \in {NoSync,
                 [NoSync EXCEPT !.metadata = Metadata("success", 7, "feed"),
                                !.recordedBy = "earlier",
                                !.blob = [by |-> "earlier", listingsCount |-> 7]]}

\* the pipeline throws error: the catch block is entered (cron route 209,
\* manual route 310)
thrown(y, error) == [y EXCEPT !.pc = "storeFailure", !.error = error]

\* cron route 97-120: GET is called
CronGet ==
    /\ sync.pc = "idle"
    /\ \E authHeader \in AuthorizationHeaders, expectedSecret \in CronSecrets :
         LET y == [sync EXCEPT !.trigger = "cron", !.authorization = authHeader,
                               !.secret = expectedSecret]
         IN  sync' =
               IF ~validateCronSecret(authHeader, expectedSecret)
                 THEN [y EXCEPT !.pc = "done",
                                !.response = [NoResponse EXCEPT
                                                !.status = 401,
                                                !.message = "Unauthorized",
                                                !.code = "CRON_UNAUTHORIZED"]]
                 ELSE [y EXCEPT !.pc = "getValidToken"]
    /\ UNCHANGED besidesSync

\* manual route 220-225: POST is called
ManualPost ==
    /\ sync.pc = "idle"
    /\ sync' = [sync EXCEPT !.trigger = "manual", !.pc = "getValidToken"]
    /\ UNCHANGED besidesSync

\* cron route 123-127, manual route 226-229: getValidToken settles
SyncGetValidToken ==
    /\ sync.pc = "getValidToken"
    /\ \/ \E shopIdStored \in BOOLEAN, shopName \in BOOLEAN, refreshed \in {0, 1} :
            sync' = [sync EXCEPT !.pc = "shop", !.tokenReads = @ + 1,
                                 !.refreshes = @ + refreshed,
                                 !.shopIdStored = shopIdStored, !.shopName = shopName]
       \/ \E error \in TokenFailures, refreshed \in {0, 1} :
            /\ refreshed = 1 <=> error.code \in {"REFRESH_TOKEN_EXPIRED", "TOKEN_REFRESH_FAILED"}
            /\ sync' = thrown([sync EXCEPT !.tokenReads = @ + 1,
                                           !.refreshes = @ + refreshed], error)
    /\ UNCHANGED besidesSync

\* cron route 128-150, manual route 231-252, part_004 515-528: the client
\* is made, which fails with no API key, and the shop is fetched, by id or
\* by name
SyncShop ==
    /\ sync.pc = "shop"
    /\ \/ sync' = thrown(sync, ConfigError("ETSY_API_KEY environment variable is not set"))
       \/ /\ ~sync.shopIdStored /\ ~sync.shopName
          /\ sync' = thrown(sync,
                 ConfigError("ETSY_SHOP_NAME environment variable is required when shop_id is not stored"))
       \/ /\ sync.shopIdStored \/ sync.shopName
          /\ \/ sync' = [sync EXCEPT !.pc = "listings", !.shopCalls = @ + 1]
             \/ \E error \in MethodFailures :
                  sync' = thrown([sync EXCEPT !.shopCalls = @ + 1], error)
    /\ UNCHANGED besidesSync

\* lengths of the array getShopListings returns: no listing, two pages
ListingsReturned == {0, DEFAULT_LIMIT + 50}

\* cron route 158-161, manual route 260-263: getShopListings settles
SyncListings ==
    /\ sync.pc = "listings"
    /\ \/ \E n \in ListingsReturned :
            sync' = [sync EXCEPT !.pc = "transform", !.listingCalls = @ + 1,
                                 !.listingsCount = n]
       \/ \E error \in MethodFailures :
            sync' = thrown([sync EXCEPT !.listingCalls = @ + 1], error)
    /\ UNCHANGED besidesSync

\* cron route 163-169, manual route 265-271, part_005 225-255:
\* formatListingsToCSV returns or refuses its input
SyncTransform ==
    /\ sync.pc = "transform"
    /\ \/ sync' = [sync EXCEPT !.pc = "upload", !.transforms = @ + 1]
       \/ sync' = thrown([sync EXCEPT !.transforms = @ + 1],
                         Thrown("Error", "none", 0,
                                "Invalid input: shopName must be a non-empty string"))
    /\ UNCHANGED besidesSync

\* cron route 171-174, manual route 273-276, blob.ts 40-80: uploadCSV
\* puts the CSV under the one name of the feed, over what is there, or
\* fails and leaves the blob
SyncUpload ==
    /\ sync.pc = "upload"
    /\ \/ sync' = [sync EXCEPT !.pc = "storeSyncMetadata", !.uploads = @ + 1,
                                !.blob = [by |-> "run",
                                          listingsCount |-> sync.listingsCount]]
       \/ sync' = thrown([sync EXCEPT !.uploads = @ + 1],
                         StorageError("Failed to upload CSV to Blob storage",
                                      "BLOB_UPLOAD_ERROR"))
    /\ UNCHANGED besidesSync

\* the write of a sync-metadata record: an upsert that obeys or throws
storeSyncMetadata(y, record, ok) ==
    [threw |-> ~ok,
     metadata |-> IF ok THEN record ELSE y.metadata,
     recordedBy |-> IF ok THEN "run" ELSE y.recordedBy]

\* the success record with no listings counted
successRecord_Empty(y) == Metadata("success", 0, "feed")

\* cron route 181-186, manual route 284-289: the success record
successRecord(y) == Metadata("success", y.listingsCount, "feed")

\* cron route 179-208, manual route 282-309: the success record is stored
\* and the route answers
SyncStoreMetadata ==
    /\ sync.pc = "storeSyncMetadata"
    /\ \E ok \in BOOLEAN :
         LET stored == storeSyncMetadata(sync, successRecord(sync), ok)
             y == [sync EXCEPT !.metadataWrites = @ + 1, !.metadata = stored.metadata,
                               !.recordedBy = stored.recordedBy]
         IN  sync' =
               IF stored.threw
                 THEN thrown(y, StorageError("Failed to store sync metadata",
                                             "EDGE_CONFIG_WRITE_ERROR"))
                 ELSE [y EXCEPT !.pc = "done",
                                !.response = [NoResponse EXCEPT
                                                !.status = 200, !.success = TRUE,
                                                !.trigger = sync.trigger]]
    /\ UNCHANGED besidesSync

\* the catch block that lets a failure of the failure record escape
failureRecorded_Rethrow(y, stored) ==
    LET error == IF stored.threw
                   THEN StorageError("Failed to store sync metadata",
                                     "EDGE_CONFIG_WRITE_ERROR")
                   ELSE y.error
    IN  [y EXCEPT !.pc = "done", !.metadata = stored.metadata,
                  !.recordedBy = stored.recordedBy,
                  !.swallowed = FALSE, !.failureWrites = @ + 1,
                  !.response = [NoResponse EXCEPT
                                  !.status = statusCodeFor(error),
                                  !.message = toPublicError(error).message,
                                  !.code = toPublicError(error).code,
                                  !.trigger = y.trigger]]

\* cron route 219-256, manual route 319-355: the failure record has been
\* stored or not; the route answers with the error it caught
failureRecorded(y, stored) ==
    [y EXCEPT !.pc = "done", !.metadata = stored.metadata,
                  !.recordedBy = stored.recordedBy,
              !.swallowed = stored.threw, !.failureWrites = @ + 1,
              !.response = [NoResponse EXCEPT
                              !.status = statusCodeFor(y.error),
                              !.message = toPublicError(y.error).message,
                              !.code = toPublicError(y.error).code,
                              !.trigger = y.trigger]]

\* cron route 209-256, manual route 310-355: the catch block
SyncStoreFailure ==
    /\ sync.pc = "storeFailure"
    /\ \E ok \in BOOLEAN :
         sync' = failureRecorded(sync,
                     storeSyncMetadata(sync, Metadata("failure", 0, "none"), ok))
    /\ UNCHANGED besidesSync

SyncNext ==
    \/ CronGet
    \/ ManualPost
    \/ SyncGetValidToken
    \/ SyncShop
    \/ SyncListings
    \/ SyncTransform
    \/ SyncUpload
    \/ SyncStoreMetadata
    \/ SyncStoreFailure

SyncSpec == InitSync /\ [][SyncNext]_vars

\* the request has no valid credential, said without the code's words: no
\* secret is configured, or the header is missing, or the header is not the
\* seven characters "Bearer " followed by the secret and nothing else
Unauthorized(y) ==
    \/ ~y.secret.present
    \/ y.secret.value = <<>>
    \/ ~y.authorization.present
    \/ y.authorization.value # <<"B", "e", "a", "r", "e", "r", " ">> \o y.secret.value

\* no step of the pipeline has begun and no sync-metadata record has been
\* written, a failure record included
NothingRan(y) ==
    /\ y.tokenReads = 0 /\ y.refreshes = 0
    /\ y.shopCalls = 0 /\ y.listingCalls = 0
    /\ y.transforms = 0 /\ y.uploads = 0
    /\ y.metadataWrites = 0 /\ y.failureWrites = 0
    /\ y.metadata \in {NoMetadata, Metadata("success", 7, "feed")}
    /\ y.error = NoThrown

\* C29: a request to the cron entry point whose Authorization header is
\* missing or is not exactly "Bearer <CRON_SECRET>", or any request when
\* CRON_SECRET is not configured, is answered 401 before any step of the
\* pipeline runs: no token read or refresh, no marketplace call, no
\* transform, no upload and no sync-metadata write, not even a failure
\* record; and only such a request is turned away.
C29_CronRejectsBeforePipeline ==
    sync.trigger = "cron" =>
      /\ Unauthorized(sync) =>
            /\ sync.pc = "done"
            /\ sync.response.status = 401
            /\ ~sync.response.success
            /\ sync.response.code = "CRON_UNAUTHORIZED"
            /\ NothingRan(sync)
      /\ ~Unauthorized(sync) => sync.response.code # "CRON_UNAUTHORIZED"

\* a header that differs from the expected one only past the scheme, and
\* is refused
C29_Witness ==
    /\ sync.trigger = "cron"
    /\ sync.secret = Value(Secret)
    /\ sync.authorization = Value(Bearer \o <<"k", "2">>)
    /\ sync.response.status = 401
    /\ sync.metadata = Metadata("success", 7, "feed")

\* the status a caller receives for a caught error, by the error's class
\* and its own status
MappedStatus(error) ==
    CASE error.class = "TokenError" -> 401
      [] error.class = "RateLimitError" -> 429
      [] error.class = "EtsyApiError" -> error.statusCode
      [] error.class = "StorageError" -> 503
      [] OTHER -> 500

\* the pipeline has failed and the route has answered
Failed(y) == y.pc = "done" /\ y.error # NoThrown

\* C30: when a step of the sync pipeline fails, cron or manual, the route
\* makes exactly one attempt to store the failure record {status: failure,
\* listingsCount: 0}; that record is stored if the write obeys, and if the
\* write fails its error is swallowed and the record in the store stays;
\* either way the caller receives the error the pipeline threw, reduced to
\* its message and code, with the mapped status (TokenError 401,
\* RateLimitError 429, another EtsyApiError its own status, StorageError
\* 503, anything else 500).
C30_FailureRecordedBestEffort ==
    /\ sync.pc = "storeFailure" => sync.failureWrites = 0 /\ sync.error # NoThrown
    /\ Failed(sync) =>
          /\ sync.failureWrites = 1
          /\ ~sync.swallowed => sync.metadata = Metadata("failure", 0, "none")
          /\ sync.swallowed => sync.metadata # Metadata("failure", 0, "none")
          /\ sync.response.status = MappedStatus(sync.error)
          /\ ~sync.response.success
          /\ sync.response.message = sync.error.message
          /\ sync.response.code = sync.error.code
          /\ sync.response.trigger = sync.trigger
    /\ (sync.pc = "done" /\ sync.error = NoThrown) => sync.failureWrites = 0

\* the upload failed, the failure record could not be stored, and the
\* caller still has the upload's error with 503
C30_Witness ==
    /\ Failed(sync)
    /\ sync.error.code = "BLOB_UPLOAD_ERROR"
    /\ sync.swallowed
    /\ sync.failureWrites = 1
    /\ sync.response.status = 503
    /\ sync.metadata = Metadata("success", 7, "feed")

(* ------------------------------------------------------------------ *)
(* The limiter under concurrency, its window and its quota             *)
(* ------------------------------------------------------------------ *)
\* instance i has been admitted and has not yet sent its request: it
\* still holds the state it worked on
JustAdmitted(i) == inv[i].pc = "fetch" /\ inv[i].httpCount = 0

\* C33: the read-modify-write of the limiter is not transactional: when
\* two invocations are admitted on the same state read from the store, the
\* count persisted after both is that state's count plus one, not plus
\* two, and both timestamps are in the history of admissions.
C33_ConcurrentAdmitsLoseAnUpdate ==
    \A i \in Inv : \A j \in Inv \ {i} :
        (JustAdmitted(i) /\ JustAdmitted(j) /\ inv[i].st = inv[j].st) =>
            /\ rlStore.daily_count = inv[i].st.daily_count + 1
            /\ \E m \in DOMAIN admitted : \E n \in DOMAIN admitted \ {m} :
                   admitted[m] = inv[i].cts /\ admitted[n] = inv[j].cts

\* both invocations read the state with four admissions in the window and
\* both were admitted at once: six admissions lie in one second, and the
\* count has grown by one for the two
C33_Witness ==
    /\ JustAdmitted(1) /\ JustAdmitted(2)
    /\ inv[1].rlRead = inv[2].rlRead
    /\ inv[1].rlRead = RLState(4, Midnight,
                               <<Midnight - 900, Midnight - 900, Midnight - 500, Midnight - 3>>)
    /\ inv[1].qpsSleeps = 0 /\ inv[2].qpsSleeps = 0
    /\ rlStore.daily_count = 5
    /\ Len(admitted) = 6
    /\ Cardinality(InWindowOf(Len(admitted))) > QPS

\* the timestamps of a list that lie in the trailing second of instant t
InWindow(timestamps, t) ==
    {k \in DOMAIN timestamps : t - timestamps[k] < SECOND_WINDOW_MS}

\* the instant at which the admit() of instance i looked at the window
CheckedAt(i) == inv[i].rlNow

\* a suspended admit() found QPS or more timestamps in the trailing second
\* and sleeps no longer than the window plus the buffer; one that records
\* without having slept found fewer and records at the instant of its check
SuspendsOnlyOnFullWindow ==
    \A i \in Inv :
        /\ inv[i].qpsSleeps <= 1
        /\ inv[i].pc = "qpsDelay" =>
               /\ ~inv[i].didReset
               /\ Cardinality(InWindow(inv[i].st.second_timestamps, CheckedAt(i))) >= QPS
               /\ inv[i].wake > CheckedAt(i)
               /\ inv[i].wake - CheckedAt(i) <= SECOND_WINDOW_MS + BUFFER_MS
        /\ (inv[i].pc = "storeRateLimitState" /\ inv[i].qpsSleeps = 0) =>
               /\ Cardinality(InWindow(inv[i].st.second_timestamps, inv[i].cts)) < QPS
               /\ ~inv[i].didReset => inv[i].cts = CheckedAt(i)
        /\ (inv[i].pc = "storeRateLimitState" /\ inv[i].qpsSleeps = 1) =>
               inv[i].cts >= inv[i].wake

\* the list persisted by an admission: the list read with the new
\* timestamp at its end, less what is a second old or older
AppendsPrunesPersists ==
    \A i \in Inv :
        Admits(i) =>
            LET all == Append(inv[i].st.second_timestamps, inv[i].cts)
                new == rlStore'.second_timestamps
            IN  /\ Len(new) >= 1
                /\ new[Len(new)] = inv[i].cts
                /\ \A k \in DOMAIN new : inv[i].cts - new[k] < SECOND_WINDOW_MS
                /\ Len(new) = Cardinality(InWindow(all, inv[i].cts))
                /\ rlStore'.daily_count = inv[i].st.daily_count + 1

\* C34: admit() suspends only when QPS or more recorded timestamps lie in
\* the trailing 1000 ms at the time of its check, and then for at most
\* 1000 ms plus the 10 ms buffer; with fewer it admits without delay; in
\* both cases it appends its own timestamp, prunes the timestamps 1000 ms
\* old or older and persists the state.
C34_SuspendOnlyOnFullWindow ==
    /\ []SuspendsOnlyOnFullWindow
    /\ [][AppendsPrunesPersists]_vars

\* an admit() that slept has recorded its timestamp, and the oldest of the
\* timestamps it had read has been pruned from the list it persisted
C34_Witness ==
    \E i \in Inv :
        /\ JustAdmitted(i)
        /\ inv[i].qpsSleeps = 1
        /\ Len(inv[i].st.second_timestamps) >= QPS
        /\ Len(rlStore.second_timestamps) < Len(inv[i].st.second_timestamps) + 1
        /\ rlStore.second_timestamps[Len(rlStore.second_timestamps)] = inv[i].cts

\* the admission of a call is written before its first HTTP attempt, adds
\* one to the persisted count and one timestamp to the history
AdmissionOncePerCall ==
    \A i \in Inv :
        Admits(i) =>
            /\ inv[i].httpCount = 0 /\ inv[i].attempt = 0 /\ inv[i].sleeps = 0
            /\ rlStore # NoState
            /\ rlStore'.daily_count = rlStore.daily_count + 1
            /\ admitted' = Append(admitted, inv[i].cts)

\* an attempt or a backoff sleep leaves the limiter state and the token
\* record alone, and is followed by nothing but a further attempt, a
\* sleep or the end of the call
AttemptsLeaveStoresAlone ==
    \A i \in Inv :
        inv[i].pc \in {"fetch", "backoffDelay"} =>
            /\ rlStore' = rlStore /\ admitted' = admitted /\ tokenStore' = tokenStore
            /\ inv'[i].pc \in {"fetch", "backoffDelay", "done"}
            /\ inv'[i].rlWrites = inv[i].rlWrites
            /\ inv'[i].tokWrites = inv[i].tokWrites
            /\ inv'[i].refreshCalls = inv[i].refreshCalls
            /\ inv'[i].ret = inv[i].ret

\* C35: each makeRequest call that passes admission adds exactly one to
\* the persisted daily_count and records exactly one timestamp, whatever
\* its outcome and however many HTTP attempts (1 to 4) it makes; its
\* retries pass no further admission and acquire no further token.
C35_OneAdmissionPerCall ==
    /\ [](\A i \in Inv : inv[i].httpCount <= MAX_RETRIES + 1)
    /\ [][AdmissionOncePerCall]_vars
    /\ [][AttemptsLeaveStoresAlone]_vars

\* a call that made four attempts and ran out of retries: the count stands
\* one above the four it started from
C35_Witness ==
    \E i \in Inv :
        /\ inv[i].pc = "done"
        /\ inv[i].httpCount = MAX_RETRIES + 1
        /\ inv[i].result.code = "MAX_RETRIES_EXCEEDED"
        /\ calls = 1
        /\ rlStore.daily_count = 5
        /\ Len(admitted) = 5

\* instance i is refused for the daily quota in this step
Refused(i) == inv[i].result.phase # "admit" /\ inv'[i].result.phase = "admit"

\* C36: an admit() that fails for the daily quota leaves the persisted
\* limiter state (daily_count, daily_reset, second_timestamps) as it was:
\* it has written nothing, and a state whose quota is used up before its
\* reset always ends in that failure.
C36_QuotaFailureWritesNothing ==
    /\ [][\A i \in Inv :
            Refused(i) =>
                /\ rlStore' = rlStore /\ admitted' = admitted
                /\ inv'[i].rlWrites = 0 /\ ~inv'[i].didReset
                /\ inv'[i].rlRead = rlStore]_vars
    /\ [](\A i \in Inv :
            (inv[i].rlRead # NoState /\ inv[i].rlRead.daily_count >= QPD
               /\ inv[i].rlNow < inv[i].rlRead.daily_reset) =>
                /\ inv[i].result.phase = "admit"
                /\ rlStore = inv[i].rlRead)

\* the second call of the day's last request: refused, the store as the
\* first call left it
C36_Witness ==
    \E i \in Inv :
        /\ inv[i].result.phase = "admit"
        /\ calls = 2
        /\ inv[i].rlRead.daily_count = QPD
        /\ Len(inv[i].rlRead.second_timestamps) = 1
        /\ rlStore = inv[i].rlRead

\* C37: under any interleaving of two invocations the persisted
\* daily_count stays between 0 and QPD: every write stores 0 or one more
\* than a count that was read below the limit.
C37_DailyCountWithinQuota ==
    /\ rlStore # NoState => (rlStore.daily_count >= 0 /\ rlStore.daily_count <= QPD)
    /\ \A i \in Inv :
          inv[i].pc = "storeRateLimitState" =>
              (inv[i].st.daily_count >= 0 /\ inv[i].st.daily_count < QPD)
    /\ \A i \in Inv :
          inv[i].pc = "storeFreshState" => inv[i].st.daily_count = 0

\* both invocations read the count one below the limit and both were
\* admitted: the count stands at the limit
C37_Witness ==
    /\ JustAdmitted(1) /\ JustAdmitted(2)
    /\ inv[1].st.daily_count = QPD - 1
    /\ inv[2].st.daily_count = QPD - 1
    /\ rlStore.daily_count = QPD

(* ------------------------------------------------------------------ *)
(* getValidToken and the record it returns                             *)
(* ------------------------------------------------------------------ *)
\* the record getValidToken has returned is the stored one; a refreshed
\* record has been written once before it is returned and differs from
\* the record read in nothing but the three fields of the token response
ReturnedIsStored ==
    \A i \in Inv :
        /\ TokenReturned(i) =>
              /\ inv[i].ret # NoTokens
              /\ inv[i].ret = tokenStore
              /\ inv[i].refreshCalls <= 1
              /\ inv[i].refreshCalls = 0 =>
                    (inv[i].tokWrites = 0 /\ inv[i].ret = inv[i].cur)
              /\ inv[i].refreshCalls = 1 =>
                    /\ inv[i].tokWrites = 1
                    /\ inv[i].ret.user_id = inv[i].cur.user_id
                    /\ inv[i].ret.shop_id = inv[i].cur.shop_id
                    /\ Triple(inv[i].ret) \in issued
                    /\ Triple(inv[i].ret) # Triple(inv[i].cur)
        /\ inv[i].result.phase = "token" =>
              (inv[i].ret = NoTokens /\ inv[i].tokWrites = 0)

\* the refresh call and the write of the refreshed record: each either
\* goes on or ends getValidToken with an error and the store as it was
RefreshFailsTogether ==
    \A i \in Inv :
        /\ (inv[i].pc = "refreshFetch" /\ inv'[i].pc # "refreshFetch") =>
              /\ tokenStore' = tokenStore
              /\ inv'[i].ret = NoTokens
              /\ \/ /\ inv'[i].pc = "storeEtsyTokens"
                    /\ nextResp' = nextResp + 1
                 \/ /\ inv'[i].pc = "done"
                    /\ inv'[i].result.phase = "token"
                    /\ inv'[i].result.class = "TokenError"
                    /\ nextResp' = nextResp
        /\ (inv[i].pc = "storeEtsyTokens" /\ inv'[i].pc # "storeEtsyTokens") =>
              \/ /\ tokenStore' = inv[i].upd
                 /\ inv'[i].ret = inv[i].upd
                 /\ inv'[i].pc = "getRateLimitState"
              \/ /\ tokenStore' = tokenStore
                 /\ inv'[i].ret = NoTokens
                 /\ inv'[i].pc = "done"
                 /\ inv'[i].result.phase = "token"
                 /\ inv'[i].result.code = "TOKEN_REFRESH_FAILED"

\* C38: getValidToken returns a refreshed record only after that record
\* was written to the store; if the refresh call or the write fails,
\* getValidToken fails; with no other invocation writing, the record it
\* returns, fresh or refreshed, is the stored record at the time of
\* return; a refresh changes access_token, refresh_token and expires_at
\* only and keeps user_id and shop_id.
C38_ReturnedTokenIsStored ==
    /\ []ReturnedIsStored
    /\ [][RefreshFailsTogether]_vars

\* a record that had expired was refreshed, written and returned
C38_Witness ==
    \E i \in Inv :
        /\ TokenReturned(i)
        /\ inv[i].refreshCalls = 1
        /\ inv[i].cur.expires_at = StartTime - 600000
        /\ inv[i].ret.expires_at > now
        /\ inv[i].ret.shop_id = "s1"
        /\ tokenStore = inv[i].ret

(* ------------------------------------------------------------------ *)
(* The sync pipeline: its order, the feed blob and the metadata        *)
(* ------------------------------------------------------------------ *)
\* the steps of the pipeline begun so far, in the order of the route
StepsBegun(y) ==
    <<y.tokenReads, y.shopCalls, y.listingCalls, y.transforms, y.uploads,
      y.metadataWrites>>

\* a step is begun once, with every step before it done and none after
\* it begun
BegunInOrder(y) ==
    LET b == StepsBegun(y)
    IN  /\ \A k \in DOMAIN b : b[k] \in {0, 1}
        /\ \A k \in DOMAIN b : \A m \in DOMAIN b : (k < m /\ b[m] = 1) => b[k] = 1

\* a step is begun only while nothing has failed: the step before it has
\* succeeded
StepAfterSuccess ==
    StepsBegun(sync') # StepsBegun(sync) => sync.error = NoThrown

\* a token is refreshed in the step that validates it, before the shop
\* lookup
RefreshInsideValidation ==
    sync'.refreshes # sync.refreshes =>
        (sync'.tokenReads = sync.tokenReads + 1 /\ sync.shopCalls = 0)

\* C31: in a sync run the steps occur in the order token validation (with
\* the refresh of an expired token inside it), shop lookup, listings,
\* CSV generation, blob upload, metadata write, each begun only after the
\* one before it succeeded; a success record is stored only after the
\* upload of the same run succeeded, and its listingsCount is the number
\* of listings getShopListings returned in that run.
C31_PipelineOrderAndSuccessRecord ==
    /\ [](/\ BegunInOrder(sync)
          /\ sync.refreshes <= sync.tokenReads
          /\ sync.metadataWrites = 1 =>
                (sync.blob.by = "run" /\ sync.blob.listingsCount = sync.listingsCount)
          /\ (sync.metadata.status = "success" /\ sync.recordedBy = "run") =>
                /\ sync.uploads = 1 /\ sync.blob.by = "run"
                /\ sync.listingCalls = 1
                /\ sync.metadata.listingsCount = sync.listingsCount
          /\ sync.response.success =>
                (sync.metadata = Metadata("success", sync.listingsCount, "feed")
                   /\ sync.recordedBy = "run"))
    /\ [][StepAfterSuccess]_vars
    /\ [][RefreshInsideValidation]_vars

\* the token was refreshed, two pages of listings were fetched, the CSV
\* was uploaded and the success record counts the 150 listings
C31_Witness ==
    /\ sync.pc = "done"
    /\ sync.response.success
    /\ sync.refreshes = 1
    /\ sync.listingsCount = DEFAULT_LIMIT + 50
    /\ sync.metadata = Metadata("success", DEFAULT_LIMIT + 50, "feed")
    /\ sync.blob = [by |-> "run", listingsCount |-> DEFAULT_LIMIT + 50]

\* the run has ended with a failure response
EndedInFailure(y) == y.pc = "done" /\ y.response.status # 0 /\ ~y.response.success

\* C32: whenever a sync run, cron or manual, ends with a failure response,
\* the feed blob holds what it held before the run started.
C32_FailureLeavesFeedAsItWas ==
    EndedInFailure(sync) => sync.blob.by # "run"

\* C39: after a successful sync run, in every state, the success record
\* in the store describes the CSV the feed blob holds: both come from the
\* same run, and the record counts the listings of that CSV.
C39_MetadataDescribesBlob ==
    sync.metadata.status = "success" =>
        /\ sync.recordedBy = sync.blob.by
        /\ sync.metadata.listingsCount = sync.blob.listingsCount

====
